---- MODULE Spec2Model ----
(***************************************************************************)
(* The documentation screenshot pipeline (capture-screenshots.ts): the     *)
(* marker parser, the filename generator, the path resolver, the arrow     *)
(* candidate filter, the content patcher and the run loop of main().       *)
(*                                                                         *)
(* A string of the program is a sequence of one-character strings, so that *)
(* trimming, splitting, prefix tests, slugs and parseInt are computed as   *)
(* the code computes them.  An optional field (undefined in the code) is a *)
(* sequence of length 0 (undefined) or 1 (the value).                      *)
(***************************************************************************)
EXTENDS Integers, Sequences, FiniteSets, TLC

VARIABLES
  doc,          \* the lines of the source document on disk
  strictFlag,   \* --strict is among the process arguments
  ciEnv,        \* process.env.CI is set
  pc,           \* where main() is
  allMarkers,   \* the markers parsed at startup
  idx,          \* 1-based position of the marker being processed
  step,         \* captureGif: frames captured so far
  cur,          \* captureScreenshot: the result awaiting the patch
  results,      \* main's results list
  browser,      \* "none", "open" or "closed"
  pageUrl,      \* the route the shared page shows
  logins,       \* completed logins of this run
  artifacts,    \* the files under the images directory
  tempDirs,     \* the /tmp/gif-frames-* directories: the frames of each, in
                \* file-name order, a frame being the route it shows
  exitCode,     \* <<>> while running, else <<status>>
  stdout,       \* what the reporter printed
  runNo,        \* invocations of the script so far
  runHist,      \* per finished run: the document it left, whether all succeeded
  navLog,       \* the navigations of this run, in order
  runLimit,     \* how many times the script is invoked
  hl,           \* the last call of the highlight functions, with its result
  fn,           \* the last two calls of generateFilename, with their results
  ps,           \* the last call of parseMarkdownFile, with its result
  rt,           \* the last route resolution of captureScreenshot
  aw            \* the last request the auth worker answered, with its response

vars == <<doc, strictFlag, ciEnv, pc, allMarkers, idx, step, cur, results,
          browser, pageUrl, logins, artifacts, tempDirs, exitCode, stdout,
          runNo, runHist, navLog, runLimit, hl, fn, ps, rt, aw>>

runVars == <<doc, strictFlag, ciEnv, pc, allMarkers, idx, step, cur, results,
             browser, pageUrl, logins, artifacts, tempDirs, exitCode, stdout,
             runNo, runHist, navLog, runLimit>>

(***************************************************************************)
(* Bounds of the model                                                     *)
(***************************************************************************)
MaxLines == 2        \* lines of the document of a single run
MaxRerunLines == 3   \* lines of the document of repeated runs
MaxRuns == 2         \* invocations in a row
MaxTargets == 3      \* candidates handed to filterArrowTargets
MaxCap == 3          \* the largest cap handed to filterArrowTargets
MaxLineNo == 2       \* line numbers of the markers handed to generateFilename
MaxSegments == 3     \* pipe-delimited segments of a marker handed to the parser
MaxLead == 2         \* lines before the marker in a document handed to the parser

(***************************************************************************)
(* Strings                                                                 *)
(***************************************************************************)
None == <<>>
Some(x) == <<x>>
IsSome(o) == Len(o) > 0
Get(o) == o[1]

Min(a, b) == IF a < b THEN a ELSE b
Max(a, b) == IF a > b THEN a ELSE b

LowerLetters ==
  {"a","b","c","d","e","f","g","h","i","j","k","l","m",
   "n","o","p","q","r","s","t","u","v","w","x","y","z"}

Digits == {"0","1","2","3","4","5","6","7","8","9"}

UpperToLower ==
  ("A" :> "a") @@ ("B" :> "b") @@ ("C" :> "c") @@ ("D" :> "d") @@
  ("E" :> "e") @@ ("F" :> "f") @@ ("G" :> "g") @@ ("H" :> "h") @@
  ("I" :> "i") @@ ("J" :> "j") @@ ("K" :> "k") @@ ("L" :> "l") @@
  ("M" :> "m") @@ ("N" :> "n") @@ ("O" :> "o") @@ ("P" :> "p") @@
  ("Q" :> "q") @@ ("R" :> "r") @@ ("S" :> "s") @@ ("T" :> "t") @@
  ("U" :> "u") @@ ("V" :> "v") @@ ("W" :> "w") @@ ("X" :> "x") @@
  ("Y" :> "y") @@ ("Z" :> "z")

DigitVal ==
  ("0" :> 0) @@ ("1" :> 1) @@ ("2" :> 2) @@ ("3" :> 3) @@ ("4" :> 4) @@
  ("5" :> 5) @@ ("6" :> 6) @@ ("7" :> 7) @@ ("8" :> 8) @@ ("9" :> 9)

Whitespace == {" "}

\* String.prototype.toLowerCase
toLowerCase(s) ==
  [i \in 1..Len(s) |-> IF s[i] \in DOMAIN UpperToLower THEN UpperToLower[s[i]] ELSE s[i]]

\* String.prototype.startsWith
startsWith(s, pre) ==
  Len(s) >= Len(pre) /\ SubSeq(s, 1, Len(pre)) = pre

\* String.prototype.includes
includes(s, sub) ==
  \E i \in 0..(Len(s) - Len(sub)) : SubSeq(s, i + 1, i + Len(sub)) = sub

RECURSIVE trimStart(_)
trimStart(s) ==
  IF s # <<>> /\ Head(s) \in Whitespace THEN trimStart(Tail(s)) ELSE s

RECURSIVE trimEnd(_)
trimEnd(s) ==
  IF s # <<>> /\ s[Len(s)] \in Whitespace THEN trimEnd(SubSeq(s, 1, Len(s) - 1)) ELSE s

\* String.prototype.trim
trim(s) == trimEnd(trimStart(s))

\* String.prototype.split on a one-character separator: the pieces between
\* the separators, the empty ones included
split(s, sep) ==
  LET cuts == {i \in 1..Len(s) : s[i] = sep}
      n == Cardinality(cuts)
      cutAt(k) == IF k = 0 THEN 0
                  ELSE IF k = n + 1 THEN Len(s) + 1
                  ELSE CHOOSE i \in cuts : Cardinality({j \in cuts : j < i}) = k - 1
  IN [k \in 1..(n + 1) |-> SubSeq(s, cutAt(k - 1) + 1, cutAt(k) - 1)]

\* Array.prototype.find over the result of a filter: the first kept element,
\* or undefined
firstOf(kept) == IF kept = <<>> THEN None ELSE Some(Head(kept))

\* String.prototype.replace(pre, '') on a string that starts with pre
dropPrefix(s, pre) == SubSeq(s, Len(pre) + 1, Len(s))

\* parseInt(s, 10): leading white space, an optional sign, then the longest run
\* of digits; NaN (None) when there is no digit
RECURSIVE digitsValue(_, _)
digitsValue(s, acc) ==
  IF s # <<>> /\ Head(s) \in Digits
  THEN digitsValue(Tail(s), acc * 10 + DigitVal[Head(s)])
  ELSE acc

parseInt(s) ==
  LET t == trimStart(s)
      neg == t # <<>> /\ Head(t) = "-"
      u == IF t # <<>> /\ Head(t) \in {"-", "+"} THEN Tail(t) ELSE t
  IN IF u = <<>> \/ Head(u) \notin Digits THEN None
     ELSE Some(IF neg THEN 0 - digitsValue(u, 0) ELSE digitsValue(u, 0))

(***************************************************************************)
(* Marker Parser: parseMarkdownFile                                        *)
(*                                                                         *)
(* A line of a document is a record: kind is "text" (non-blank, no marker, *)
(* not an image reference), "blank", "img" (an image reference: trimmed,   *)
(* it starts with "![" ), "shot" (it holds a SCREENSHOT marker) or "gif"   *)
(* (it holds a GIF marker).  body is what the marker's regular expression  *)
(* captures between the keyword and the closing "-->"; alt and ref are an  *)
(* image reference's text and target.                                      *)
(***************************************************************************)
HIGHLIGHT == <<"h","i","g","h","l","i","g","h","t",":">>
MAXARROWS == <<"m","a","x","a","r","r","o","w","s",":">>
ARROW == <<"a","r","r","o","w",":">>

Line(kind, body, alt, ref) == [kind |-> kind, body |-> body, alt |-> alt, ref |-> ref]

TextLine == Line("text", <<>>, <<>>, <<>>)
BlankLine == Line("blank", <<>>, <<>>, <<>>)
ImgLine(alt, ref) == Line("img", <<>>, alt, ref)
ShotLine(body) == Line("shot", body, <<>>, <<>>)
GifLine(body) == Line("gif", body, <<>>, <<>>)

\* screenshotMatch[1].split('|').map(s => s.trim())
splitParts(body) ==
  LET raw == split(body, "|") IN [i \in 1..Len(raw) |-> trim(raw[i])]

\* selectors taken as they stand between the commas
parseHighlights_untrimmed(parts) ==
  LET highlightPart == firstOf(SelectSeq(parts, LAMBDA p : startsWith(p, HIGHLIGHT)))
  IN IF IsSome(highlightPart) /\ Get(highlightPart) # <<>>
     THEN Some(split(dropPrefix(Get(highlightPart), HIGHLIGHT), ","))
     ELSE None

\* the highlight selectors of a marker: undefined without a highlight: part
parseHighlights(parts) ==
  LET highlightPart == firstOf(SelectSeq(parts, LAMBDA p : startsWith(p, HIGHLIGHT)))
  IN IF IsSome(highlightPart) /\ Get(highlightPart) # <<>>
     THEN LET sels == split(dropPrefix(Get(highlightPart), HIGHLIGHT), ",")
              trimmed == [i \in 1..Len(sels) |-> trim(sels[i])]
          IN Some(SelectSeq(trimmed, LAMBDA s : Len(s) > 0))
     ELSE None

\* a parser that lets an override of 0 through (parsed >= 0)
parseMaxArrows_nonNegative(parts) ==
  LET maxArrowsPart == firstOf(SelectSeq(parts, LAMBDA p : startsWith(p, MAXARROWS)))
  IN IF IsSome(maxArrowsPart) /\ Get(maxArrowsPart) # <<>>
     THEN LET parsed == parseInt(trim(dropPrefix(Get(maxArrowsPart), MAXARROWS)))
          IN IF IsSome(parsed) /\ Get(parsed) >= 0 THEN parsed ELSE None
     ELSE None

\* the maxarrows override of a marker: undefined unless the first maxarrows:
\* part parses to an integer above 0
parseMaxArrows(parts) ==
  LET maxArrowsPart == firstOf(SelectSeq(parts, LAMBDA p : startsWith(p, MAXARROWS)))
  IN IF IsSome(maxArrowsPart) /\ Get(maxArrowsPart) # <<>>
     THEN LET parsed == parseInt(trim(dropPrefix(Get(maxArrowsPart), MAXARROWS)))
          IN IF IsSome(parsed) /\ Get(parsed) > 0 THEN parsed ELSE None
     ELSE None

\* the parts left for the path and the description
contentPartsOf(parts) ==
  SelectSeq(parts, LAMBDA p : ~startsWith(p, HIGHLIGHT)
                              /\ ~startsWith(p, MAXARROWS)
                              /\ ~startsWith(p, ARROW))

Marker(type, description, path, steps, highlights, maxArrows, sourceFile, lineNumber) ==
  [type |-> type, description |-> description, path |-> path, steps |-> steps,
   highlights |-> highlights, maxArrows |-> maxArrows,
   sourceFile |-> sourceFile, lineNumber |-> lineNumber]

\* the marker of a SCREENSHOT line
parseScreenshot(body, filePath, lineNumber) ==
  LET parts == splitParts(body)
      contentParts == contentPartsOf(parts)
  IN IF Len(contentParts) >= 2 /\ startsWith(contentParts[1], <<"/">>)
     THEN Marker("screenshot", Some(contentParts[2]), Some(contentParts[1]), None,
                 parseHighlights(parts), parseMaxArrows(parts), filePath, lineNumber)
     ELSE Marker("screenshot",
                 IF Len(contentParts) >= 1 THEN Some(contentParts[1]) ELSE None,
                 None, None,
                 parseHighlights(parts), parseMaxArrows(parts), filePath, lineNumber)

\* the marker of a GIF line
parseGif(body, filePath, lineNumber) ==
  LET steps == splitParts(body)
  IN Marker("gif", Some(steps[1]), None, Some(steps), None, None, filePath, lineNumber)

\* lines.forEach((line, index) => ...): the markers of the lines from position
\* index on, each tagged with its 1-based line number
\* markers tagged with the 0-based index of their line
RECURSIVE parseLines_zeroBased(_, _, _)
parseLines_zeroBased(lines, filePath, index) ==
  IF index > Len(lines) THEN <<>>
  ELSE (CASE lines[index].kind = "shot" ->
               <<parseScreenshot(lines[index].body, filePath, index - 1)>>
          [] lines[index].kind = "gif" ->
               <<parseGif(lines[index].body, filePath, index - 1)>>
          [] OTHER -> <<>>)
       \o parseLines_zeroBased(lines, filePath, index + 1)

\* lines.forEach((line, index) => ...): one marker per marker line, tagged
\* index + 1
RECURSIVE parseLines(_, _, _)
parseLines(lines, filePath, index) ==
  IF index > Len(lines) THEN <<>>
  ELSE (CASE lines[index].kind = "shot" ->
               <<parseScreenshot(lines[index].body, filePath, index)>>
          [] lines[index].kind = "gif" ->
               <<parseGif(lines[index].body, filePath, index)>>
          [] OTHER -> <<>>)
       \o parseLines(lines, filePath, index + 1)

parseMarkdownFile(lines, filePath) == parseLines(lines, filePath, 1)

(***************************************************************************)
(* generateFilename and the output path                                    *)
(***************************************************************************)
SlugMaxLen == 50

\* .replace(/[^a-z0-9]+/g, '-'): every maximal run of other characters
\* becomes one "-"
RECURSIVE replaceRuns(_, _)
replaceRuns(s, inRun) ==
  IF s = <<>> THEN <<>>
  ELSE IF Head(s) \in LowerLetters \cup Digits
       THEN <<Head(s)>> \o replaceRuns(Tail(s), FALSE)
       ELSE (IF inRun THEN <<>> ELSE <<"-">>) \o replaceRuns(Tail(s), TRUE)

\* .replace(/^-|-$/g, ''): a "-" at the start and a "-" at the end are removed
stripDashes(s) ==
  LET a == IF s # <<>> /\ Head(s) = "-" THEN Tail(s) ELSE s
  IN IF a # <<>> /\ a[Len(a)] = "-" THEN SubSeq(a, 1, Len(a) - 1) ELSE a

\* .slice(0, n)
slice0(s, n) == SubSeq(s, 1, Min(n, Len(s)))

slugOf(description) ==
  slice0(stripDashes(replaceRuns(toLowerCase(description), FALSE)), SlugMaxLen)

\* parts[parts.length - 2] || 'general' of the source file's path, a sequence
\* of the components between the "/"
featureAreaOf(sourceFile) ==
  IF Len(sourceFile) >= 2 /\ sourceFile[Len(sourceFile) - 1] # ""
  THEN sourceFile[Len(sourceFile) - 1]
  ELSE "general"

\* a filename that depends on where the marker stands: the line number is
\* the extension's suffix
generateFilename_numbered(marker) ==
  [area |-> featureAreaOf(marker.sourceFile),
   slug |-> slugOf(Get(marker.description)),
   ext |-> IF marker.type = "gif" THEN <<"gif", marker.lineNumber>>
           ELSE <<"png", marker.lineNumber>>]

\* `${featureArea}/${slug}.${ext}`; the marker has a description
generateFilename(marker) ==
  [area |-> featureAreaOf(marker.sourceFile),
   slug |-> slugOf(Get(marker.description)),
   ext |-> IF marker.type = "gif" THEN "gif" ELSE "png"]

(***************************************************************************)
(* Path Resolver: inferPath                                                *)
(***************************************************************************)
\* pathMappings, in the order Object.entries walks it
pathMappings ==
  << <<<<"q","u","o","t","e">>, <<"/","q","u","o","t","e","s">>>>,
     <<<<"q","u","o","t","e","s">>, <<"/","q","u","o","t","e","s">>>>,
     <<<<"c","a","l","e","n","d","a","r">>, <<"/","a","p","p","o","i","n","t","m","e","n","t","s">>>>,
     <<<<"s","c","h","e","d","u","l","e">>, <<"/","a","p","p","o","i","n","t","m","e","n","t","s">>>>,
     <<<<"a","p","p","o","i","n","t","m","e","n","t">>, <<"/","a","p","p","o","i","n","t","m","e","n","t","s">>>>,
     <<<<"c","u","s","t","o","m","e","r">>, <<"/","c","u","s","t","o","m","e","r","s">>>>,
     <<<<"i","n","v","e","n","t","o","r","y">>, <<"/","i","n","v","e","n","t","o","r","y">>>>,
     <<<<"o","r","d","e","r">>, <<"/","o","r","d","e","r","s">>>>,
     <<<<"w","o","r","k"," ","o","r","d","e","r">>, <<"/","w","o","r","k","_","o","r","d","e","r","s">>>>,
     <<<<"i","n","v","o","i","c","e">>, <<"/","i","n","v","o","i","c","e","s">>>>,
     <<<<"d","a","s","h","b","o","a","r","d">>, <<"/","d","a","s","h","b","o","a","r","d">>>>,
     <<<<"s","e","t","t","i","n","g","s">>, <<"/","s","e","t","t","i","n","g","s">>>> >>

DefaultRoute == <<"/","d","a","s","h","b","o","a","r","d">>

inferPath(description) ==
  LET lowerDesc == toLowerCase(description)
      hits == SelectSeq(pathMappings, LAMBDA e : includes(lowerDesc, e[1]))
  IN IF hits = <<>> THEN DefaultRoute ELSE Head(hits)[2]

(***************************************************************************)
(* Arrow Candidate Scorer and Spatial Deduplicator                         *)
(***************************************************************************)
DEFAULT_MAX_ARROWS == 3
PROXIMITY_PADDING == 50
ViewportWidth == 1400
ViewportHeight == 900

ctaWords ==
  {<<"c","r","e","a","t","e">>, <<"s","a","v","e">>, <<"s","u","b","m","i","t">>, <<"a","d","d">>, <<"n","e","w">>, <<"c","o","n","f","i","r","m">>, <<"u","p","d","a","t","e">>, <<"d","e","l","e","t","e">>, <<"r","e","m","o","v","e">>}

\* /create|save|submit|add|new|confirm|update|delete|remove/i .test(text)
ctaPatterns(text) == \E w \in ctaWords : includes(toLowerCase(text), w)

\* a score that is the largest applicable weight instead of the sum
scoreElement_highest(selector, text, tagName, type) ==
  IF includes(selector, <<"b","t","n","-","p","r","i","m","a","r","y">>) THEN 100
  ELSE IF type = "submit" THEN 90
  ELSE IF ctaPatterns(text) THEN 50
  ELSE IF tagName = "BUTTON" \/ tagName = "A" THEN 20
  ELSE IF tagName = "INPUT" \/ tagName = "SELECT" \/ tagName = "TEXTAREA" THEN 10
  ELSE 0

scoreElement(selector, text, tagName, type) ==
    (IF includes(selector, <<".","b","t","n","-","p","r","i","m","a","r","y">>) \/ includes(selector, <<"b","t","n","-","p","r","i","m","a","r","y">>)
     THEN 100 ELSE 0)
  + (IF type = "submit" THEN 90 ELSE 0)
  + (IF tagName = "BUTTON" \/ tagName = "A" THEN 20 ELSE 0)
  + (IF ctaPatterns(text) THEN 50 ELSE 0)
  + (IF tagName = "INPUT" \/ tagName = "SELECT" \/ tagName = "TEXTAREA" THEN 10 ELSE 0)

\* a proximity test on the boxes as they are, without the padding
isInProximity_unpadded(box1, box2) ==
  ~(box1.x + box1.width < box2.x \/ box1.x > box2.x + box2.width
    \/ box1.y + box1.height < box2.y \/ box1.y > box2.y + box2.height)

\* the two boxes, each expanded by the padding, overlap or touch
isInProximity(box1, box2) ==
  LET pad == PROXIMITY_PADDING
      b1 == [left |-> box1.x - pad, right |-> box1.x + box1.width + pad,
             top |-> box1.y - pad, bottom |-> box1.y + box1.height + pad]
      b2 == [left |-> box2.x - pad, right |-> box2.x + box2.width + pad,
             top |-> box2.y - pad, bottom |-> box2.y + box2.height + pad]
  IN ~(b1.right < b2.left \/ b1.left > b2.right
       \/ b1.bottom < b2.top \/ b1.top > b2.bottom)

\* a comparator on the priority alone
sortsBefore_priorityOnly(a, b) == b.priority - a.priority < 0

\* the sort's comparator is negative: a goes before b
sortsBefore(a, b) ==
  IF b.priority # a.priority THEN b.priority - a.priority < 0
  ELSE IF a.y # b.y THEN a.y - b.y < 0
  ELSE a.x - b.x < 0

\* Array.prototype.sort is stable: t goes after every element it does not
\* sort before
RECURSIVE insertSorted(_, _)
insertSorted(sorted, t) ==
  IF sorted = <<>> THEN <<t>>
  ELSE IF sortsBefore(t, Head(sorted)) THEN <<t>> \o sorted
  ELSE <<Head(sorted)>> \o insertSorted(Tail(sorted), t)

RECURSIVE sortTargets(_, _)
sortTargets(targets, sorted) ==
  IF targets = <<>> THEN sorted
  ELSE sortTargets(Tail(targets), insertSorted(sorted, Head(targets)))

\* a pass that does not record the targets it leaves out for proximity
RECURSIVE greedy_silent(_, _, _, _)
greedy_silent(sorted, maxArrows, selected, skipped) ==
  IF sorted = <<>> THEN [selected |-> selected, skipped |-> skipped]
  ELSE LET target == Head(sorted) IN
       IF Len(selected) >= maxArrows
       THEN greedy_silent(Tail(sorted), maxArrows, selected, Append(skipped, target.selector))
       ELSE IF \E i \in 1..Len(selected) : isInProximity(selected[i], target)
       THEN greedy_silent(Tail(sorted), maxArrows, selected, skipped)
       ELSE greedy_silent(Tail(sorted), maxArrows, Append(selected, target), skipped)

\* a pass in which a target left out for proximity uses up a place of the cap
RECURSIVE greedy_counting(_, _, _, _)
greedy_counting(sorted, maxArrows, selected, skipped) ==
  IF sorted = <<>> THEN [selected |-> selected, skipped |-> skipped]
  ELSE LET target == Head(sorted) IN
       IF Len(selected) + Len(skipped) >= maxArrows
       THEN greedy_counting(Tail(sorted), maxArrows, selected,
                            Append(skipped, target.selector))
       ELSE IF \E i \in 1..Len(selected) : isInProximity(selected[i], target)
       THEN greedy_counting(Tail(sorted), maxArrows, selected,
                            Append(skipped, target.selector))
       ELSE greedy_counting(Tail(sorted), maxArrows, Append(selected, target), skipped)

\* the greedy pass over the sorted targets
RECURSIVE greedy(_, _, _, _)
greedy(sorted, maxArrows, selected, skipped) ==
  IF sorted = <<>> THEN [selected |-> selected, skipped |-> skipped]
  ELSE LET target == Head(sorted) IN
       IF Len(selected) >= maxArrows
       THEN greedy(Tail(sorted), maxArrows, selected, Append(skipped, target.selector))
       ELSE IF \E i \in 1..Len(selected) : isInProximity(selected[i], target)
       THEN greedy(Tail(sorted), maxArrows, selected, Append(skipped, target.selector))
       ELSE greedy(Tail(sorted), maxArrows, Append(selected, target), skipped)

\* skipped.splice(skipped.indexOf(v), 1) when v is in skipped
removeFirst(seq, v) ==
  IF \E i \in 1..Len(seq) : seq[i] = v
  THEN LET i == CHOOSE j \in 1..Len(seq) :
                  seq[j] = v /\ \A k \in 1..(j - 1) : seq[k] # v
       IN SubSeq(seq, 1, i - 1) \o SubSeq(seq, i + 1, Len(seq))
  ELSE seq

\* a filter that stops after the greedy pass, without the forced minimum
filterArrowTargets_noMinimum(targets, maxArrows, forceMinimum) ==
  IF Len(targets) = 0 THEN [selected |-> <<>>, skipped |-> <<>>]
  ELSE greedy(sortTargets(targets, <<>>), maxArrows, <<>>, <<>>)

\* sort, greedy pass, then the forced minimum
filterArrowTargets(targets, maxArrows, forceMinimum) ==
  IF Len(targets) = 0 THEN [selected |-> <<>>, skipped |-> <<>>]
  ELSE LET sorted == sortTargets(targets, <<>>)
           pass == greedy(sorted, maxArrows, <<>>, <<>>)
       IN IF forceMinimum /\ Len(pass.selected) = 0 /\ Len(sorted) > 0
          THEN [selected |-> <<sorted[1]>>,
                skipped |-> removeFirst(pass.skipped, sorted[1].selector)]
          ELSE pass

(***************************************************************************)
(* Highlight Engine: applyHighlights                                       *)
(*                                                                         *)
(* The live page is the set of elements it shows.  An element carries what *)
(* the engine reads of it: tag, type, text, bounding box (none when it is  *)
(* not rendered) and the selectors that match it.                          *)
(***************************************************************************)
Box(x, y, width, height) == [x |-> x, y |-> y, width |-> width, height |-> height]

Element(id, tagName, type, text, box, sels) ==
  [id |-> id, tagName |-> tagName, type |-> type, text |-> text, box |-> box, sels |-> sels]

SelPrimary == <<".","b","t","n","-","p","r","i","m","a","r","y">>
SelInput == <<"i","n","p","u","t">>
SelBig == <<"#","b","i","g">>
SelLink == <<"a">>
SelCard == <<".","c","a","r","d">>
SelGone == <<".","g","o","n","e">>

ElementPool ==
  { Element(1, "BUTTON", "submit", <<"S","a","v","e">>, Some(Box(100, 100, 80, 30)), {SelPrimary}),
    Element(2, "INPUT", "submit", <<>>, Some(Box(200, 100, 80, 30)), {SelPrimary, SelInput}),
    Element(3, "INPUT", "text", <<>>, Some(Box(100, 300, 200, 30)), {SelInput}),
    Element(4, "INPUT", "text", <<>>, Some(Box(100, 230, 200, 30)), {SelInput}),
    Element(5, "DIV", "", <<"A","l","l"," ","q","u","o","t","e","s">>, Some(Box(0, 0, 1400, 200)), {SelBig}),
    Element(6, "A", "", <<"N","e","x","t">>, Some(Box(1200, 800, 100, 40)), {SelLink}),
    Element(7, "DIV", "", <<"T","o","t","a","l">>, Some(Box(600, 100, 100, 50)), {SelCard}),
    Element(8, "A", "", <<"A","d","d"," ","n","e","w">>, None, {SelLink}),
    Element(9, "DIV", "", <<"S","u","m","m","a","r","y">>, Some(Box(0, 300, 420, 300)), {SelBig}) }

\* page.locator(selector).all(): the matching elements in document order
RECURSIVE inOrder(_)
inOrder(elements) ==
  IF elements = {} THEN <<>>
  ELSE LET first == CHOOSE e \in elements : \A o \in elements : e.id <= o.id
       IN <<first>> \o inOrder(elements \ {first})

locatorAll(page, selector) == inOrder({e \in page : selector \in e.sels})

viewportArea == ViewportWidth * ViewportHeight

\* a threshold that lets an element of exactly a tenth of the viewport through
isSmallElement_inclusive(box) == box.width * box.height * 10 <= viewportArea

\* elementArea < viewportArea * 0.10
isSmallElement(box) == box.width * box.height * 10 < viewportArea

ArrowTarget(box, selector, priority, text) ==
  [x |-> box.x, y |-> box.y, width |-> box.width, height |-> box.height,
   selector |-> selector, priority |-> priority, text |-> text]

\* the candidates one selector adds, in document order
candidatesOf(page, selector) ==
  LET elements == locatorAll(page, selector)
      eligible == SelectSeq(elements,
                            LAMBDA e : IsSome(e.box) /\ isSmallElement(Get(e.box)))
  IN [i \in 1..Len(eligible) |->
        ArrowTarget(Get(eligible[i].box), selector,
                    scoreElement(selector, eligible[i].text,
                                 eligible[i].tagName, eligible[i].type),
                    eligible[i].text)]

RECURSIVE allCandidatesOf(_, _)
allCandidatesOf(page, selectors) ==
  IF selectors = <<>> THEN <<>>
  ELSE candidatesOf(page, Head(selectors)) \o allCandidatesOf(page, Tail(selectors))

RECURSIVE totalHighlightedOf(_, _)
totalHighlightedOf(page, selectors) ==
  IF selectors = <<>> THEN 0
  ELSE Len(locatorAll(page, Head(selectors))) + totalHighlightedOf(page, Tail(selectors))

applyHighlights(page, selectors, maxArrows) ==
  LET allCandidates == allCandidatesOf(page, selectors)
      totalHighlighted == totalHighlightedOf(page, selectors)
      forceMinimum == totalHighlighted > 0
      filtered == filterArrowTargets(allCandidates, maxArrows, forceMinimum)
  IN [targets |-> filtered.selected, count |-> totalHighlighted,
      skipped |-> filtered.skipped]

\* captureScreenshot's highlight step: marker.maxArrows ?? DEFAULT_MAX_ARROWS
highlightStep(page, marker) ==
  IF IsSome(marker.highlights) /\ Len(Get(marker.highlights)) > 0
  THEN applyHighlights(page, Get(marker.highlights),
                       IF IsSome(marker.maxArrows) THEN Get(marker.maxArrows)
                       ELSE DEFAULT_MAX_ARROWS)
  ELSE [targets |-> <<>>, count |-> 0, skipped |-> <<>>]

(***************************************************************************)
(* Content Patcher: addImageRefToMarkdown                                  *)
(***************************************************************************)
\* the scan of the lines after the marker line finds an image reference:
\* some line of the window is one, and only blank lines come before it
hasImageRef(lines, lineNumber) ==
  \E p \in (lineNumber + 1)..Min(lineNumber + 3, Len(lines)) :
     /\ lines[p].kind = "img"
     /\ \A q \in (lineNumber + 1)..(p - 1) : lines[q].kind = "blank"

\* lines.splice(at, 0, "\n![description](path)") and the join: read back, the
\* inserted element is a blank line and the image reference line
spliceImageRef(lines, lineNumber, imagePath, description) ==
  LET at == Min(lineNumber, Len(lines))
  IN SubSeq(lines, 1, at)
     \o <<BlankLine, ImgLine(description, Some(imagePath))>>
     \o SubSeq(lines, at + 1, Len(lines))

\* the document the call leaves on disk
addImageRefToMarkdown(lines, lineNumber, imagePath, description) ==
  IF hasImageRef(lines, lineNumber) THEN lines
  ELSE spliceImageRef(lines, lineNumber, imagePath, description)

(***************************************************************************)
(* The run: main()                                                         *)
(***************************************************************************)
SourceFile == <<"", "repo", "docs", "quotes", "creating.md">>
OutputDir == <<"", "repo", "docs", "assets", "images">>
LoginRoute == <<"/","u","s","e","r","s","/","s","i","g","n","_","i","n">>
LandingRoute == <<"/","d","a","s","h","b","o","a","r","d">>

\* path.join(CONFIG.outputDir, generateFilename(marker))
outputPathOf(marker) == [dir |-> OutputDir, file |-> generateFilename(marker)]

BodyPlain == <<"Q","u","o","t","e"," ","l","i","s","t">>
BodyHighlight == <<"/","q","u","o","t","e","s","/","n","e","w"," ","|"," ","N","e","w"," ","q","u","o","t","e"," ","|"," ","h","i","g","h","l","i","g","h","t",":",".","b","t","n","-","p","r","i","m","a","r","y",",","i","n","p","u","t">>
BodyNoDescription == <<"h","i","g","h","l","i","g","h","t",":",".","g","o","n","e">>
BodyGif == <<"/","q","u","o","t","e","s"," ","|"," ","A","d","d"," ","i","t","e","m">>

LinePool ==
  { TextLine, BlankLine, ImgLine(<<"o","l","d">>, None),
    ShotLine(BodyPlain), ShotLine(BodyHighlight), ShotLine(BodyNoDescription),
    GifLine(BodyGif) }

RECURSIVE SeqsUpTo(_, _)
SeqsUpTo(S, n) ==
  IF n = 0 THEN {<<>>}
  ELSE LET shorter == SeqsUpTo(S, n - 1)
       IN shorter \cup {Append(s, x) : s \in {t \in shorter : Len(t) = n - 1}, x \in S}

Docs == SeqsUpTo(LinePool, MaxLines) \ {<<>>}
RerunDocs == SeqsUpTo(LinePool, MaxRerunLines) \ {<<>>}

\* the live page a capture finds: nothing matches, or every element is there
RunPages == {{}, ElementPool}

NoResult == [path |-> None, highlightCount |-> 0]

Printed(error, summary, warned, json) ==
  [error |-> error, summary |-> summary, warned |-> warned, json |-> json]

\* the state before the first invocation
InitRun ==
  /\ pc = "idle"
  /\ allMarkers = <<>>
  /\ idx = 1
  /\ step = 0
  /\ cur = NoResult
  /\ results = <<>>
  /\ browser = "none"
  /\ pageUrl = <<>>
  /\ logins = 0
  /\ artifacts = {}
  /\ tempDirs = <<>>
  /\ exitCode = None
  /\ stdout = Printed("none", None, 0, FALSE)
  /\ runNo = 0
  /\ runHist = <<>>
  /\ navLog = <<>>
  /\ hl = [op |-> "none", targets |-> <<>>, maxArrows |-> 0, forceMinimum |-> FALSE,
           page |-> {}, maxText |-> <<>>, marker |-> <<>>,
           selected |-> <<>>, skipped |-> <<>>, count |-> 0]
  /\ fn = [op |-> "none", m1 |-> <<>>, p1 |-> <<>>, m2 |-> <<>>, p2 |-> <<>>,
           before |-> {}, after |-> {}]
  /\ ps = [op |-> "none", kind |-> "none", segments |-> <<>>, lines |-> <<>>,
           markers |-> <<>>]
  /\ rt = [op |-> "none", marker |-> <<>>, route |-> <<>>]
  /\ aw = [op |-> "none", request |-> <<>>, response |-> <<>>]

\* one invocation, on any document, with any flags
Init ==
  /\ doc \in Docs
  /\ strictFlag \in BOOLEAN
  /\ ciEnv \in BOOLEAN
  /\ runLimit = 1
  /\ InitRun

\* repeated invocations on the document the run before left
InitRerun ==
  /\ doc \in RerunDocs
  /\ strictFlag \in BOOLEAN
  /\ ciEnv = FALSE
  /\ runLimit = MaxRuns
  /\ InitRun

curMarker == allMarkers[idx]

CaptureResult(m, output, success, actualHighlights) ==
  [description |-> m.description,
   output |-> output,
   success |-> success,
   expectedHighlights |-> IF IsSome(m.highlights) THEN Len(Get(m.highlights)) ELSE 0,
   actualHighlights |-> actualHighlights,
   sourceFile |-> m.sourceFile,
   lineNumber |-> m.lineNumber]

\* the catch block of the loop body
failureOf(m) == CaptureResult(m, None, FALSE, 0)

allSucceeded(res) ==
  /\ Len(res) = Len(allMarkers)
  /\ \A i \in 1..Len(res) : res[i].success

\* the process ends with this status
exitWith(status) ==
  /\ exitCode' = Some(status)
  /\ pc' = "exited"
  /\ runHist' = Append(runHist, [doc |-> doc, ok |-> allSucceeded(results)])

\* a new invocation of the script: arguments, parse of the target file
StartRun ==
  /\ pc \in {"idle", "exited"}
  /\ runNo < runLimit
  /\ Len(parseMarkdownFile(doc, SourceFile)) > 0
  /\ runNo' = runNo + 1
  /\ allMarkers' = parseMarkdownFile(doc, SourceFile)
  /\ pc' = "launch"
  /\ idx' = 1
  /\ step' = 0
  /\ cur' = NoResult
  /\ results' = <<>>
  /\ browser' = "none"
  /\ pageUrl' = <<>>
  /\ logins' = 0
  /\ exitCode' = None
  /\ stdout' = Printed("none", None, 0, FALSE)
  /\ navLog' = <<>>
  /\ UNCHANGED <<doc, strictFlag, ciEnv, artifacts, tempDirs, runHist, runLimit, hl, fn, ps, rt, aw>>

\* no marker in the target file: main returns before the browser is launched
StartNoMarkers ==
  /\ pc \in {"idle", "exited"}
  /\ runNo < runLimit
  /\ Len(parseMarkdownFile(doc, SourceFile)) = 0
  /\ runNo' = runNo + 1
  /\ allMarkers' = <<>>
  /\ idx' = 1
  /\ step' = 0
  /\ cur' = NoResult
  /\ results' = <<>>
  /\ browser' = "none"
  /\ pageUrl' = <<>>
  /\ logins' = 0
  /\ stdout' = Printed("none", None, 0, FALSE)
  /\ navLog' = <<>>
  /\ exitCode' = Some(0)
  /\ pc' = "exited"
  /\ runHist' = Append(runHist, [doc |-> doc, ok |-> TRUE])
  /\ UNCHANGED <<doc, strictFlag, ciEnv, artifacts, tempDirs, runLimit, hl, fn, ps, rt, aw>>

\* chromium.launch, newContext, newPage
Launch ==
  /\ pc = "launch"
  /\ browser' = "open"
  /\ pc' = "login"
  /\ UNCHANGED <<doc, strictFlag, ciEnv, allMarkers, idx, step, cur, results, pageUrl,
                 logins, artifacts, tempDirs, exitCode, stdout, runNo, runHist,
                 navLog, runLimit, hl, fn, ps, rt, aw>>

\* the launch throws: main's promise rejects, main().catch(console.error)
\* prints the error and the process ends normally
LaunchFail ==
  /\ pc = "launch"
  /\ stdout' = [stdout EXCEPT !.error = "launch"]
  /\ exitWith(0)
  /\ UNCHANGED <<doc, strictFlag, ciEnv, allMarkers, idx, step, cur, results, browser,
                 pageUrl, logins, artifacts, tempDirs, runNo, navLog, runLimit, hl, fn, ps, rt, aw>>

\* login(page) returns: the page left the sign-in route
Login ==
  /\ pc = "login"
  /\ logins' = logins + 1
  /\ pageUrl' = LandingRoute
  /\ navLog' = Append(navLog, [what |-> "login", marker |-> 0, recorded |-> Len(results)])
  /\ pc' = "loop"
  /\ UNCHANGED <<doc, strictFlag, ciEnv, allMarkers, idx, step, cur, results, browser,
                 artifacts, tempDirs, exitCode, stdout, runNo, runHist, runLimit, hl, fn, ps, rt, aw>>

\* a login failure that is reported and then ignored: the loop starts
LoginFail_swallowed ==
  /\ pc = "login"
  /\ pageUrl' = LoginRoute
  /\ navLog' = Append(navLog, [what |-> "login", marker |-> 0, recorded |-> Len(results)])
  /\ stdout' = [stdout EXCEPT !.error = "login"]
  /\ pc' = "loop"
  /\ UNCHANGED <<doc, strictFlag, ciEnv, allMarkers, idx, step, cur, results, logins,
                 browser, artifacts, tempDirs, exitCode, runNo, runHist, runLimit, hl, fn, ps, rt, aw>>

\* login(page) throws or times out: the finally block closes the browser, the
\* rejection reaches main().catch(console.error)
LoginFail ==
  /\ pc = "login"
  /\ pageUrl' = LoginRoute
  /\ navLog' = Append(navLog, [what |-> "login", marker |-> 0, recorded |-> Len(results)])
  /\ browser' = "closed"
  /\ stdout' = [stdout EXCEPT !.error = "login"]
  /\ exitWith(0)
  /\ UNCHANGED <<doc, strictFlag, ciEnv, allMarkers, idx, step, cur, results, logins,
                 artifacts, tempDirs, runNo, runLimit, hl, fn, ps, rt, aw>>

\* a resolver that looks at the description first
targetPathOf_inferred(m) == inferPath(Get(m.description))

\* the route a single-image capture navigates to
targetPathOf(m) ==
  IF IsSome(m.path) /\ Get(m.path) # <<>> THEN Get(m.path)
  ELSE inferPath(Get(m.description))

\* the route of a sequence step
stepPathOf(stepText) ==
  IF startsWith(stepText, <<"/">>) THEN stepText ELSE inferPath(stepText)

Goto(what) == [what |-> what, marker |-> idx, recorded |-> Len(results)]

\* a catch block that gives up on the markers that are left
recordFailure_abort ==
  /\ results' = Append(results, failureOf(curMarker))
  /\ idx' = Len(allMarkers) + 1
  /\ step' = 0
  /\ cur' = NoResult
  /\ pc' = "loop"

\* a catch block that goes to the next marker and records nothing
recordFailure_unrecorded ==
  /\ results' = results
  /\ idx' = idx + 1
  /\ step' = 0
  /\ cur' = NoResult
  /\ pc' = "loop"

\* the catch block: one failure entry, then the next marker
recordFailure ==
  /\ results' = Append(results, failureOf(curMarker))
  /\ idx' = idx + 1
  /\ step' = 0
  /\ cur' = NoResult
  /\ pc' = "loop"

\* captureScreenshot reads the description of a marker that has none:
\* a TypeError before any navigation
ShotNoDescription ==
  /\ pc = "loop" /\ idx <= Len(allMarkers)
  /\ curMarker.type = "screenshot"
  /\ ~IsSome(curMarker.description)
  /\ recordFailure
  /\ UNCHANGED <<doc, strictFlag, ciEnv, allMarkers, browser, pageUrl, logins, artifacts,
                 tempDirs, exitCode, stdout, runNo, runHist, navLog, runLimit, hl, fn, ps, rt, aw>>

\* page.goto and the waits of captureScreenshot
ShotNavigate ==
  /\ pc = "loop" /\ idx <= Len(allMarkers)
  /\ curMarker.type = "screenshot"
  /\ IsSome(curMarker.description)
  /\ pageUrl' = targetPathOf(curMarker)
  /\ navLog' = Append(navLog, Goto("goto"))
  /\ pc' = "shot"
  /\ UNCHANGED <<doc, strictFlag, ciEnv, allMarkers, idx, step, cur, results, browser,
                 logins, artifacts, tempDirs, exitCode, stdout, runNo, runHist, runLimit, hl, fn, ps, rt, aw>>

\* the navigation throws (timeout, network error)
ShotNavigateFail ==
  /\ pc = "loop" /\ idx <= Len(allMarkers)
  /\ curMarker.type = "screenshot"
  /\ IsSome(curMarker.description)
  /\ navLog' = Append(navLog, Goto("goto"))
  /\ recordFailure
  /\ UNCHANGED <<doc, strictFlag, ciEnv, allMarkers, browser, pageUrl, logins, artifacts,
                 tempDirs, exitCode, stdout, runNo, runHist, runLimit, hl, fn, ps, rt, aw>>

\* highlights, page.screenshot, addArrowsToImage
ShotCapture ==
  /\ pc = "shot"
  /\ \E page \in RunPages :
       LET result == highlightStep(page, curMarker)
       IN cur' = [path |-> Some(outputPathOf(curMarker)), highlightCount |-> result.count]
  /\ artifacts' = artifacts \cup {outputPathOf(curMarker)}
  /\ pc' = "patch"
  /\ UNCHANGED <<doc, strictFlag, ciEnv, allMarkers, idx, step, results, browser, pageUrl,
                 logins, tempDirs, exitCode, stdout, runNo, runHist, navLog, runLimit, hl, fn, ps, rt, aw>>

\* a failed capture after which the document is patched all the same
ShotCaptureFail_patching ==
  /\ pc = "shot"
  /\ artifacts' = artifacts
  /\ doc' = addImageRefToMarkdown(doc, curMarker.lineNumber, outputPathOf(curMarker),
                                  Get(curMarker.description))
  /\ recordFailure
  /\ UNCHANGED <<strictFlag, ciEnv, allMarkers, browser, pageUrl, logins, tempDirs,
                 exitCode, stdout, runNo, runHist, navLog, runLimit, hl, fn, ps, rt, aw>>

\* page.screenshot throws (nothing written) or addArrowsToImage throws (the
\* plain screenshot is already on disk)
ShotCaptureFail ==
  /\ pc = "shot"
  /\ \E written \in BOOLEAN :
       artifacts' = IF written THEN artifacts \cup {outputPathOf(curMarker)} ELSE artifacts
  /\ recordFailure
  /\ UNCHANGED <<doc, strictFlag, ciEnv, allMarkers, browser, pageUrl, logins, tempDirs,
                 exitCode, stdout, runNo, runHist, navLog, runLimit, hl, fn, ps, rt, aw>>

\* captureGif: the temporary frame directory is created
GifBegin ==
  /\ pc = "loop" /\ idx <= Len(allMarkers)
  /\ curMarker.type = "gif"
  /\ IsSome(curMarker.steps) /\ Len(Get(curMarker.steps)) > 0
  /\ tempDirs' = Append(tempDirs, <<>>)
  /\ step' = 0
  /\ pc' = "frames"
  /\ UNCHANGED <<doc, strictFlag, ciEnv, allMarkers, idx, cur, results, browser, pageUrl,
                 logins, artifacts, exitCode, stdout, runNo, runHist, navLog, runLimit, hl, fn, ps, rt, aw>>

\* one step: navigate, wait, save the frame
GifFrame ==
  /\ pc = "frames"
  /\ step < Len(Get(curMarker.steps))
  /\ pageUrl' = stepPathOf(Get(curMarker.steps)[step + 1])
  /\ navLog' = Append(navLog, Goto("goto"))
  /\ tempDirs' = [tempDirs EXCEPT ![Len(tempDirs)] =
                     Append(@, stepPathOf(Get(curMarker.steps)[step + 1]))]
  /\ step' = step + 1
  /\ UNCHANGED <<doc, strictFlag, ciEnv, pc, allMarkers, idx, cur, results, browser,
                 logins, artifacts, exitCode, stdout, runNo, runHist, runLimit, hl, fn, ps, rt, aw>>

\* a step's navigation or frame capture throws
GifFrameFail ==
  /\ pc = "frames"
  /\ step < Len(Get(curMarker.steps))
  /\ navLog' = Append(navLog, Goto("goto"))
  /\ recordFailure
  /\ UNCHANGED <<doc, strictFlag, ciEnv, allMarkers, browser, pageUrl, logins, artifacts,
                 tempDirs, exitCode, stdout, runNo, runHist, runLimit, hl, fn, ps, rt, aw>>

\* an encode that leaves the frame directory behind
GifEncode_keepFrames ==
  /\ pc = "frames"
  /\ step = Len(Get(curMarker.steps))
  /\ artifacts' = artifacts \cup {outputPathOf(curMarker)}
  /\ cur' = [path |-> Some(outputPathOf(curMarker)), highlightCount |-> 0]
  /\ pc' = "patch"
  /\ UNCHANGED <<doc, strictFlag, ciEnv, allMarkers, idx, step, results, browser, pageUrl,
                 logins, tempDirs, exitCode, stdout, runNo, runHist, navLog, runLimit, hl, fn, ps, rt, aw>>

\* ffmpeg succeeds: the animation is written, the frame directory removed
GifEncode ==
  /\ pc = "frames"
  /\ step = Len(Get(curMarker.steps))
  /\ artifacts' = artifacts \cup {outputPathOf(curMarker)}
  /\ tempDirs' = SubSeq(tempDirs, 1, Len(tempDirs) - 1)
  /\ cur' = [path |-> Some(outputPathOf(curMarker)), highlightCount |-> 0]
  /\ pc' = "patch"
  /\ UNCHANGED <<doc, strictFlag, ciEnv, allMarkers, idx, step, results, browser, pageUrl,
                 logins, exitCode, stdout, runNo, runHist, navLog, runLimit, hl, fn, ps, rt, aw>>

\* execFileSync throws: ffmpeg is missing or fails
GifEncodeFail ==
  /\ pc = "frames"
  /\ step = Len(Get(curMarker.steps))
  /\ recordFailure
  /\ UNCHANGED <<doc, strictFlag, ciEnv, allMarkers, browser, pageUrl, logins, artifacts,
                 tempDirs, exitCode, stdout, runNo, runHist, navLog, runLimit, hl, fn, ps, rt, aw>>

\* addImageRefToMarkdown with the line number parsed at startup, then
\* results.push of the success entry
PatchAndRecord ==
  /\ pc = "patch"
  /\ doc' = addImageRefToMarkdown(doc, curMarker.lineNumber, Get(cur.path),
                                  Get(curMarker.description))
  /\ results' = Append(results,
                       CaptureResult(curMarker, cur.path, TRUE, cur.highlightCount))
  /\ idx' = idx + 1
  /\ step' = 0
  /\ cur' = NoResult
  /\ pc' = "loop"
  /\ UNCHANGED <<strictFlag, ciEnv, allMarkers, browser, pageUrl, logins, artifacts,
                 tempDirs, exitCode, stdout, runNo, runHist, navLog, runLimit, hl, fn, ps, rt, aw>>

\* a filter that counts the failed captures as well
missingHighlights_anyResult(res) ==
  SelectSeq(res, LAMBDA r : r.expectedHighlights > 0 /\ r.actualHighlights = 0)

\* results.filter(r => r.success && r.expectedHighlights > 0 && r.actualHighlights === 0)
missingHighlights(res) ==
  SelectSeq(res, LAMBDA r : r.success /\ r.expectedHighlights > 0 /\ r.actualHighlights = 0)

successCount(res) == Len(SelectSeq(res, LAMBDA r : r.success))

\* args.includes('--strict') || process.env.CI
strictMode == strictFlag \/ ciEnv

report ==
  Printed("none",
          Some([total |-> Len(results), success |-> successCount(results)]),
          Len(missingHighlights(results)),
          ciEnv)

\* the loop is over: summary, warnings, JSON; no strict failure, so the
\* finally block closes the browser and main returns
Finish ==
  /\ pc = "loop" /\ idx > Len(allMarkers)
  /\ ~(strictMode /\ Len(missingHighlights(results)) > 0)
  /\ stdout' = report
  /\ browser' = "closed"
  /\ exitWith(0)
  /\ UNCHANGED <<doc, strictFlag, ciEnv, allMarkers, idx, step, cur, results, pageUrl,
                 logins, artifacts, tempDirs, runNo, navLog, runLimit, hl, fn, ps, rt, aw>>

\* a strict failure raised as soon as a missing highlight is on record
FinishStrict_early ==
  /\ pc = "loop"
  /\ strictMode /\ Len(missingHighlights(results)) > 0
  /\ stdout' = report
  /\ exitWith(1)
  /\ UNCHANGED <<doc, strictFlag, ciEnv, allMarkers, idx, step, cur, results, browser,
                 pageUrl, logins, artifacts, tempDirs, runNo, navLog, runLimit, hl, fn, ps, rt, aw>>

\* strict mode and a missing highlight: process.exit(1) ends the process at
\* once, inside the try block
FinishStrict ==
  /\ pc = "loop" /\ idx > Len(allMarkers)
  /\ strictMode /\ Len(missingHighlights(results)) > 0
  /\ stdout' = report
  /\ exitWith(1)
  /\ UNCHANGED <<doc, strictFlag, ciEnv, allMarkers, idx, step, cur, results, browser,
                 pageUrl, logins, artifacts, tempDirs, runNo, navLog, runLimit, hl, fn, ps, rt, aw>>

Next ==
  \/ StartRun \/ StartNoMarkers
  \/ Launch \/ LaunchFail
  \/ Login \/ LoginFail
  \/ ShotNoDescription \/ ShotNavigate \/ ShotNavigateFail
  \/ ShotCapture \/ ShotCaptureFail
  \/ GifBegin \/ GifFrame \/ GifFrameFail \/ GifEncode \/ GifEncodeFail
  \/ PatchAndRecord
  \/ Finish \/ FinishStrict

Spec == Init /\ [][Next]_vars

SpecRerun == InitRerun /\ [][Next]_vars

(***************************************************************************)
(* The highlight functions called on their own                             *)
(***************************************************************************)
Selectors == {SelPrimary, SelInput, SelBig, SelLink, SelCard, SelGone}

\* every candidate applyHighlights can build from the element pool
CandidatePool ==
  { ArrowTarget(Get(p[1].box), p[2],
                scoreElement(p[2], p[1].text, p[1].tagName, p[1].type), p[1].text) :
      p \in {q \in ElementPool \X Selectors :
               /\ q[2] \in q[1].sels
               /\ IsSome(q[1].box) /\ isSmallElement(Get(q[1].box))} }

TargetLists == SeqsUpTo(CandidatePool, MaxTargets)

\* targets as a caller may hand them in, with priorities of its own choosing:
\* five apart from one another, priorities 190, 20, 10, 10, 10
SpreadTargets ==
  << ArrowTarget(Box(100, 100, 80, 30), SelPrimary, 190, <<>>),
     ArrowTarget(Box(400, 100, 80, 30), SelLink, 20, <<>>),
     ArrowTarget(Box(100, 400, 80, 30), SelInput, 10, <<>>),
     ArrowTarget(Box(400, 400, 80, 30), SelInput, 10, <<>>),
     ArrowTarget(Box(100, 700, 80, 30), SelInput, 10, <<>>) >>

\* two whose padded boxes overlap, priorities 80 and 60, and one of priority 0
\* far from both
CloseTargets ==
  << ArrowTarget(Box(700, 100, 80, 30), SelLink, 80, <<>>),
     ArrowTarget(Box(760, 120, 80, 30), SelInput, 60, <<>>),
     ArrowTarget(Box(1000, 600, 100, 50), SelCard, 0, <<>>) >>

\* the same targets in the order of a permutation
Reordered(targets, perm) == [i \in 1..Len(perm) |-> targets[perm[i]]]

ExampleLists ==
  { Reordered(SpreadTargets, p) :
      p \in {<<1, 2, 3, 4, 5>>, <<5, 4, 3, 2, 1>>, <<4, 2, 5, 1, 3>>, <<3, 5, 4, 1>>} }
  \cup { Reordered(CloseTargets, p) :
      p \in {<<1, 2, 3>>, <<3, 2, 1>>, <<2, 3, 1>>, <<2, 1>>} }
  \cup { << ArrowTarget(Box(100, 100, 80, 30), SelPrimary, 100, <<>>),
            ArrowTarget(Box(240, 100, 80, 30), SelLink, 20, <<>>) >> }

HighlightLists ==
  {<<".","b","t","n","-","p","r","i","m","a","r","y",",","i","n","p","u","t",",","a",",",".","c","a","r","d">>, <<"i","n","p","u","t",","," ",".","c","a","r","d">>, <<"#","b","i","g",",",".","g","o","n","e">>,
   <<"#","b","i","g",",",".","b","t","n","-","p","r","i","m","a","r","y">>}

\* the text after "maxarrows:" in a marker
MaxArrowTexts ==
  {<<"0">>, <<"1">>, <<"2">>, <<"5">>, <<"-","3">>, <<"x">>, <<"2","x">>, <<>>, <<" ","4">>, <<"+","1">>, <<"0","7">>}

Sep == <<" ","|"," ">>

HighlightBody(list, maxText) ==
  <<"/","q","u","o","t","e","s","/","n","e","w"," ","|"," ","N","e","w"," ","q","u","o","t","e"," ","|"," ","h","i","g","h","l","i","g","h","t",":">> \o list
  \o (IF IsSome(maxText) THEN Sep \o MAXARROWS \o Get(maxText) ELSE <<>>)

HlCall(op, targets, maxArrows, forceMinimum, page, maxText, m, selected, skipped, count) ==
  [op |-> op, targets |-> targets, maxArrows |-> maxArrows, forceMinimum |-> forceMinimum,
   page |-> page, maxText |-> maxText, marker |-> m,
   selected |-> selected, skipped |-> skipped, count |-> count]

NoCall == HlCall("none", <<>>, 0, FALSE, {}, None, None, <<>>, <<>>, 0)

\* filterArrowTargets(targets, maxArrows, forceMinimum)
CallFilter ==
  /\ hl.op = "none"
  /\ \E targets \in TargetLists \cup ExampleLists, cap \in 0..MaxCap,
        forceMinimum \in BOOLEAN :
       LET r == filterArrowTargets(targets, cap, forceMinimum)
       IN hl' = HlCall("filter", targets, cap, forceMinimum, {}, None, None,
                       r.selected, r.skipped, 0)
  /\ UNCHANGED <<runVars, fn, ps, rt, aw>>

\* a marker with highlight selectors is parsed
ParseHighlightMarker ==
  /\ hl.op = "none"
  /\ \E list \in HighlightLists, maxText \in {None} \cup {Some(t) : t \in MaxArrowTexts} :
       hl' = HlCall("parsed", <<>>, 0, FALSE, {}, maxText,
                    Some(parseScreenshot(HighlightBody(list, maxText), SourceFile, 1)),
                    <<>>, <<>>, 0)
  /\ UNCHANGED <<runVars, fn, ps, rt, aw>>

\* the highlight step of captureScreenshot for the parsed marker on a live page
CallApplyHighlights ==
  /\ hl.op = "parsed"
  /\ \E page \in SUBSET ElementPool :
       LET m == Get(hl.marker)
           r == highlightStep(page, m)
       IN hl' = [hl EXCEPT !.op = "apply",
                           !.targets = allCandidatesOf(page, Get(m.highlights)),
                           !.maxArrows = IF IsSome(m.maxArrows) THEN Get(m.maxArrows)
                                         ELSE DEFAULT_MAX_ARROWS,
                           !.forceMinimum = r.count > 0,
                           !.page = page,
                           !.selected = r.targets,
                           !.skipped = r.skipped,
                           !.count = r.count]
  /\ UNCHANGED <<runVars, fn, ps, rt, aw>>

InitHighlight ==
  /\ doc = <<TextLine>>
  /\ strictFlag = FALSE
  /\ ciEnv = FALSE
  /\ runLimit = 0
  /\ InitRun

NextHighlight == CallFilter \/ ParseHighlightMarker \/ CallApplyHighlights

SpecHighlight == InitHighlight /\ [][NextHighlight]_vars

(***************************************************************************)
(* generateFilename called for two markers, the first one's artifact       *)
(* written in between                                                      *)
(***************************************************************************)
NameDescriptions == {<<"N","e","w"," ","q","u","o","t","e">>, <<"n","e","w"," "," ","Q","U","O","T","E","!">>, <<"A","d","d"," ","i","t","e","m">>}

NameFiles ==
  { <<"", "repo", "docs", "quotes", "creating.md">>,
    <<"", "repo", "docs", "quotes", "templates.md">>,
    <<"", "repo", "docs", "scheduling", "creating.md">>,
    <<"creating.md">> }

NameMarker(type, d, path, highlights, maxArrows, file, line) ==
  Marker(type, Some(d), path, IF type = "gif" THEN Some(<<d>>) ELSE None,
         highlights, maxArrows, file, line)

\* the first marker: any description, source file and kind
FirstMarkers ==
  { NameMarker(type, d, None, None, None, file, 1) :
      type \in {"screenshot", "gif"}, d \in NameDescriptions, file \in NameFiles }

\* the second marker: any marker
NameMarkers ==
  { NameMarker(type, d, path, highlights, maxArrows, file, line) :
      type \in {"screenshot", "gif"}, d \in NameDescriptions,
      path \in {None, Some(<<"/","q","u","o","t","e","s">>)},
      highlights \in {None, Some(<<SelPrimary>>)},
      maxArrows \in {None, Some(5)},
      file \in NameFiles, line \in 1..MaxLineNo }

NameCall(op, m1, p1, m2, p2, before, after) ==
  [op |-> op, m1 |-> m1, p1 |-> p1, m2 |-> m2, p2 |-> p2,
   before |-> before, after |-> after]

\* the output path of a marker, and its artifact written
NameFirst ==
  /\ fn.op = "none"
  /\ \E m \in FirstMarkers :
       /\ fn' = NameCall("first", Some(m), Some(outputPathOf(m)), None, None,
                         artifacts, artifacts)
       /\ artifacts' = {outputPathOf(m)}
  /\ UNCHANGED <<doc, strictFlag, ciEnv, pc, allMarkers, idx, step, cur, results,
                 browser, pageUrl, logins, tempDirs, exitCode, stdout, runNo, runHist,
                 navLog, runLimit, hl, ps, rt, aw>>

\* the output path of a second marker, with the first artifact on disk
NameSecond ==
  /\ fn.op = "first"
  /\ \E m \in NameMarkers :
       fn' = [fn EXCEPT !.op = "second", !.m2 = Some(m), !.p2 = Some(outputPathOf(m)),
                        !.after = artifacts]
  /\ UNCHANGED <<runVars, hl, ps, rt, aw>>

InitNames ==
  /\ doc = <<TextLine>>
  /\ strictFlag = FALSE
  /\ ciEnv = FALSE
  /\ runLimit = 0
  /\ InitRun

NextNames == NameFirst \/ NameSecond

SpecNames == InitNames /\ [][NextNames]_vars

(***************************************************************************)
(* parseMarkdownFile called on a document: lines of text, then one marker  *)
(* line written from pipe-delimited segments                               *)
(***************************************************************************)
SegPath == <<"/","q","u","o","t","e","s","/","n","e","w">>
SegDescription == <<"N","e","w"," ","q","u","o","t","e"," ","f","o","r","m">>
SegHighlight == <<"h","i","g","h","l","i","g","h","t",":","i","n","p","u","t","[","t","y","p","e","=","\"","s","u","b","m","i","t","\"","]",",",".","b","t","n","-","p","r","i","m","a","r","y">>
SegHighlightGaps == <<"h","i","g","h","l","i","g","h","t",":"," ",".","a",",",","," ",".","b">>
SegMaxArrows == <<"m","a","x","a","r","r","o","w","s",":","2">>
SegArrow == <<"a","r","r","o","w",":",".","x">>
SegUnknown == <<"d","e","l","a","y",":","5","0","0">>
SegUnknownCase == <<"H","i","g","h","l","i","g","h","t",":",".","x">>

SegmentPool ==
  {SegPath, SegDescription, SegHighlight, SegHighlightGaps, SegMaxArrows, SegArrow,
   SegUnknown, SegUnknownCase, <<>>}

SegmentLists == SeqsUpTo(SegmentPool, MaxSegments) \ {<<>>}

\* the text between the marker's keyword and its end: the segments joined
\* with " | "
RECURSIVE joinSegments(_)
joinSegments(segments) ==
  IF Len(segments) = 1 THEN segments[1]
  ELSE segments[1] \o Sep \o joinSegments(Tail(segments))

ParseCall(op, kind, segments, lines, markers) ==
  [op |-> op, kind |-> kind, segments |-> segments, lines |-> lines, markers |-> markers]

\* parseMarkdownFile(filePath) on a document of `lead` lines of text and one
\* marker line
CallParse ==
  /\ ps.op = "none"
  /\ \E segments \in SegmentLists, kind \in {"shot", "gif"}, lead \in 0..MaxLead :
       LET lines == [i \in 1..lead |-> TextLine]
                    \o <<Line(kind, joinSegments(segments), <<>>, <<>>)>>
       IN ps' = ParseCall("parse", kind, segments, lines,
                          parseMarkdownFile(lines, SourceFile))
  /\ UNCHANGED <<runVars, hl, fn, rt, aw>>

\* parseMarkdownFile on a document with a marker on each of two lines
CallParseTwo ==
  /\ ps.op = "none"
  /\ \E first \in {<<SegDescription>>, <<SegPath, SegDescription, SegHighlight>>},
        second \in {<<SegPath, SegDescription>>, <<SegUnknown>>},
        k1 \in {"shot", "gif"}, k2 \in {"shot", "gif"}, gap \in 0..MaxLead :
       LET lines == <<Line(k1, joinSegments(first), <<>>, <<>>)>>
                    \o [i \in 1..gap |-> BlankLine]
                    \o <<Line(k2, joinSegments(second), <<>>, <<>>)>>
       IN ps' = ParseCall("parse", "two", first \o second, lines,
                          parseMarkdownFile(lines, SourceFile))
  /\ UNCHANGED <<runVars, hl, fn, rt, aw>>

InitParse ==
  /\ doc = <<TextLine>>
  /\ strictFlag = FALSE
  /\ ciEnv = FALSE
  /\ runLimit = 0
  /\ InitRun

NextParse == CallParse \/ CallParseTwo

SpecParse == InitParse /\ [][NextParse]_vars


(***************************************************************************)
(* The first lines of captureScreenshot: the route is resolved and the     *)
(* page goes there                                                         *)
(***************************************************************************)
\* descriptions with one keyword, several, none, in either case
RouteDescriptions ==
  LET RouteWords ==
      {<<"Q","u","o","t","e">>,
      <<"Q","U","O","T","E","S">>,
      <<"C","a","l","e","n","d","a","r">>,
      <<"S","c","h","e","d","u","l","e">>,
      <<"A","p","p","o","i","n","t","m","e","n","t">>,
      <<"C","u","s","t","o","m","e","r">>,
      <<"I","n","v","e","n","t","o","r","y">>,
      <<"O","r","d","e","r">>,
      <<"W","o","r","k"," ","o","r","d","e","r">>,
      <<"I","n","v","o","i","c","e">>,
      <<"D","a","s","h","b","o","a","r","d">>,
      <<"S","e","t","t","i","n","g","s">>,
      <<"R","e","p","o","r","t","s">>,
      <<"I","n","v","o","i","c","e"," ","f","o","r"," ","a"," ","q","u","o","t","e">>,
      <<"W","o","r","k"," ","O","r","d","e","r"," ","s","c","h","e","d","u","l","e">>,
      <<"R","e","o","r","d","e","r"," ","p","a","r","t","s">>}
      RouteLeads == {<<>>, <<"N","e","w"," ">>, <<"E","d","i","t"," ","t","h","e"," ">>}
      RouteTails == {<<>>, <<" ","l","i","s","t">>, <<" ","p","a","g","e">>}
  IN {lead \o word \o tail :
        lead \in RouteLeads, word \in RouteWords, tail \in RouteTails}

RoutePaths == {None, Some(<<"/","q","u","o","t","e","s","/","n","e","w">>), Some(<<"/","s","e","t","t","i","n","g","s","/","s","h","o","p">>)}

\* targetPath = marker.path || inferPath(marker.description); page.goto
CallResolve ==
  /\ rt.op = "none"
  /\ \E description \in RouteDescriptions, path \in RoutePaths, line \in 1..MaxLineNo :
       LET m == Marker("screenshot", Some(description), path, None, None, None,
                       SourceFile, line)
       IN /\ rt' = [op |-> "resolve", marker |-> Some(m), route |-> targetPathOf(m)]
          /\ pageUrl' = targetPathOf(m)
  /\ UNCHANGED <<doc, strictFlag, ciEnv, pc, allMarkers, idx, step, cur, results,
                 browser, logins, artifacts, tempDirs, exitCode, stdout,
                 runNo, runHist, navLog, runLimit, hl, fn, ps, aw>>

InitRoute ==
  /\ doc = <<TextLine>>
  /\ strictFlag = FALSE
  /\ ciEnv = FALSE
  /\ runLimit = 0
  /\ InitRun

NextRoute == CallResolve

SpecRoute == InitRoute /\ [][NextRoute]_vars


(***************************************************************************)
(* scoreElement called on its own                                          *)
(***************************************************************************)
ScoreTexts ==
  {<<>>, <<"S","a","v","e">>, <<"C","R","E","A","T","E"," ","q","u","o","t","e">>, <<"A","d","d","r","e","s","s">>, <<"T","o","t","a","l">>, <<"C","a","n","c","e","l">>, <<"R","e","n","e","w","a","l">>}

ScoreTags == {"BUTTON", "A", "INPUT", "SELECT", "TEXTAREA", "DIV"}

\* el.type as the page reports it; a button's is "submit" unless set otherwise
ScoreTypes == {"submit", "text", "button", ""}

\* scoreElement(selector, metadata.text, metadata.tagName, metadata.type)
CallScore ==
  /\ hl.op = "none"
  /\ \E selector \in Selectors \cup {<<"b","u","t","t","o","n",".","b","t","n","-","p","r","i","m","a","r","y">>}, text \in ScoreTexts,
        tagName \in ScoreTags, type \in ScoreTypes :
       hl' = [op |-> "score", selector |-> selector, text |-> text,
              tagName |-> tagName, type |-> type,
              score |-> scoreElement(selector, text, tagName, type)]
  /\ UNCHANGED <<runVars, fn, ps, rt, aw>>

SpecScore == InitHighlight /\ [][CallScore]_vars

(***************************************************************************)
(* Callout Renderer: pickArrowDirection, ARROW_OFFSETS, addArrowsToImage   *)
(***************************************************************************)
PAD == 12
ARROW_OFFSET == 80
MaxDrawn == 2

\* (box.x + box.width / 2) > viewportWidth * 0.6, and the same downwards;
\* 1400 * 0.6 and 900 * 0.6 are 840 and 540 exactly
pickArrowDirection(box, viewportWidth, viewportHeight) ==
  LET inRightHalf == (2 * box.x + box.width) * 10 > viewportWidth * 12
      inBottomHalf == (2 * box.y + box.height) * 10 > viewportHeight * 12
  IN IF inRightHalf /\ inBottomHalf THEN "top-left"
     ELSE IF inRightHalf THEN "bottom-left"
     ELSE IF inBottomHalf THEN "top-right"
     ELSE "bottom-right"

\* ARROW_OFFSETS[direction], its targetX and targetY applied to (b, pad)
ARROW_OFFSETS(direction, b, pad) ==
  CASE direction = "bottom-right" ->
         [targetX |-> b.x + b.width + pad, targetY |-> b.y + b.height + pad,
          offsetX |-> ARROW_OFFSET, offsetY |-> ARROW_OFFSET]
    [] direction = "bottom-left" ->
         [targetX |-> b.x - pad, targetY |-> b.y + b.height + pad,
          offsetX |-> 0 - ARROW_OFFSET, offsetY |-> ARROW_OFFSET]
    [] direction = "top-right" ->
         [targetX |-> b.x + b.width + pad, targetY |-> b.y - pad,
          offsetX |-> ARROW_OFFSET, offsetY |-> 0 - ARROW_OFFSET]
    [] direction = "top-left" ->
         [targetX |-> b.x - pad, targetY |-> b.y - pad,
          offsetX |-> 0 - ARROW_OFFSET, offsetY |-> 0 - ARROW_OFFSET]

\* one pass of the loop of addArrowsToImage: the arrow drawn for a target
arrowOf(box, viewportWidth, viewportHeight) ==
  LET direction == pickArrowDirection(box, viewportWidth, viewportHeight)
      offsets == ARROW_OFFSETS(direction, box, PAD)
  IN [direction |-> direction,
      targetX |-> offsets.targetX, targetY |-> offsets.targetY,
      startX |-> offsets.targetX + offsets.offsetX,
      startY |-> offsets.targetY + offsets.offsetY]

\* the arrows addArrowsToImage draws, one per target, in order
addArrowsToImage(targets, viewportWidth, viewportHeight) ==
  [i \in 1..Len(targets) |-> arrowOf(targets[i], viewportWidth, viewportHeight)]

\* Selection entries all over the screen: centres in each quadrant, on the
\* middle lines (700, 450), on the 60% lines (840, 540) and between them
ArrowBoxes ==
  {ArrowTarget(Box(x, y, 80, 30), SelLink, 20, <<>>) :
     x \in {100, 660, 730, 800, 1200}, y \in {100, 435, 470, 525, 800}}

\* addArrowsToImage(outputPath, arrowTargets, viewport.width, viewport.height)
CallAddArrows ==
  /\ hl.op = "none"
  /\ \E targets \in SeqsUpTo(ArrowBoxes, MaxDrawn) \ {<<>>} :
       hl' = [op |-> "arrows", targets |-> targets,
              arrows |-> addArrowsToImage(targets, ViewportWidth, ViewportHeight)]
  /\ UNCHANGED <<runVars, fn, ps, rt, aw>>

SpecArrows == InitHighlight /\ [][CallAddArrows]_vars

(***************************************************************************)
(* The docs auth worker (workers/auth.js)                                  *)
(*                                                                         *)
(* A signed value, URL token or session cookie, is what the worker reads   *)
(* of it: its form (empty, without the "--" separator, or data--signature),*)
(* the secret that signed it, whether its data parses, and the two expiry  *)
(* fields of the payload, each absent, past or future.                     *)
(***************************************************************************)
endsWith(s, suf) ==
  Len(s) >= Len(suf) /\ SubSeq(s, Len(s) - Len(suf) + 1, Len(s)) = suf

Signed(form, secret, parses, railsExpiry, sessionExpiry) ==
  [form |-> form, secret |-> secret, parses |-> parses,
   _expires_at |-> railsExpiry, expires_at |-> sessionExpiry]

SignedValues ==
  {Signed("empty", "none", FALSE, "none", "none"),
   Signed("onepart", "none", FALSE, "none", "none")}
  \cup {Signed("signed", secret, parses, railsExpiry, sessionExpiry) :
          secret \in {"DOCS_SIGNING_SECRET", "other"}, parses \in BOOLEAN,
          railsExpiry \in {"none", "past", "future"},
          sessionExpiry \in {"none", "past", "future"}}

RequestPaths ==
  {<<"/">>, <<"/","i","n","d","e","x",".","h","t","m","l">>, <<"/","q","u","o","t","e","s","/","c","r","e","a","t","i","n","g","/">>, <<"/","s","e","t","t","i","n","g","s">>,
   <<"/","a","s","s","e","t","s","/","a","p","p",".","c","s","s">>, <<"/","q","u","o","t","e","s","/","f","o","r","m",".","p","n","g">>, <<"/","j","a","v","a","s","c","r","i","p","t","s","/","f","e","e","d","b","a","c","k",".","j","s">>}

Request(path, token, cookie) == [path |-> path, token |-> token, cookie |-> cookie]

isPublicPath(path) ==
  \/ path = <<"/">> \/ path = <<"/","i","n","d","e","x",".","h","t","m","l">>
  \/ \E pre \in {<<"/","a","s","s","e","t","s","/">>, <<"/","s","t","y","l","e","s","h","e","e","t","s","/">>, <<"/","j","a","v","a","s","c","r","i","p","t","s","/">>, <<"/","i","m","a","g","e","s","/">>} : startsWith(path, pre)
  \/ \E suf \in {<<".","c","s","s">>, <<".","j","s">>, <<".","p","n","g">>, <<".","j","p","g">>, <<".","s","v","g">>, <<".","i","c","o">>, <<".","w","o","f","f">>, <<".","w","o","f","f","2">>} : endsWith(path, suf)

\* validateRailsToken(token, secret).valid
validateRailsToken(token) ==
  /\ token.form = "signed"
  /\ token.secret = "DOCS_SIGNING_SECRET"
  /\ token.parses
  /\ token._expires_at # "past"

\* createSession(payload, secret): signed now, expiring in COOKIE_MAX_AGE
createSession == Signed("signed", "DOCS_SIGNING_SECRET", TRUE, "none", "future")

isValidSession(sessionToken) ==
  /\ sessionToken.form = "signed"
  /\ sessionToken.secret = "DOCS_SIGNING_SECRET"
  /\ sessionToken.parses
  /\ sessionToken.expires_at # "past"

\* what the worker returns: the origin's answer or a redirect
Response(status, origin, location, setCookie) ==
  [status |-> status, origin |-> origin, location |-> location, setCookie |-> setCookie]

\* a worker that lets public paths through before it looks at the token
fetch_publicFirst(request) ==
  IF isPublicPath(request.path)
  THEN Response("origin", Some(request.path), None, None)
  ELSE IF IsSome(request.token) /\ Get(request.token).form # "empty"
          /\ validateRailsToken(Get(request.token))
  THEN Response("302", None,
                Some([site |-> "docs", path |-> request.path, token |-> FALSE,
                      return_to |-> None]),
                Some(createSession))
  ELSE IF IsSome(request.cookie) /\ Get(request.cookie).form # "empty"
          /\ isValidSession(Get(request.cookie))
  THEN Response("origin", Some(request.path), None, request.cookie)
  ELSE Response("302", None,
                Some([site |-> "rails", path |-> <<"/","l","o","g","i","n">>, token |-> FALSE,
                      return_to |-> Some(<<"/","h","e","l","p">> \o request.path)]),
                None)

\* export default { fetch(request, env, ctx) }
fetch(request) ==
  IF IsSome(request.token) /\ Get(request.token).form # "empty"
     /\ validateRailsToken(Get(request.token))
  THEN Response("302", None,
                Some([site |-> "docs", path |-> request.path, token |-> FALSE,
                      return_to |-> None]),
                Some(createSession))
  ELSE IF isPublicPath(request.path)
  THEN Response("origin", Some(request.path), None, None)
  ELSE IF IsSome(request.cookie) /\ Get(request.cookie).form # "empty"
          /\ isValidSession(Get(request.cookie))
  THEN Response("origin", Some(request.path), None, request.cookie)
  ELSE Response("302", None,
                Some([site |-> "rails", path |-> <<"/","l","o","g","i","n">>, token |-> FALSE,
                      return_to |-> Some(<<"/","h","e","l","p">> \o (IF request.path = <<"/">> THEN <<>>
                                                   ELSE request.path))]),
                None)

\* a request arrives at the worker
CallFetch ==
  /\ aw.op = "none"
  /\ \E path \in RequestPaths,
        token \in {None} \cup {Some(v) : v \in SignedValues},
        cookie \in {None} \cup {Some(v) : v \in SignedValues} :
       LET request == Request(path, token, cookie)
       IN aw' = [op |-> "fetch", request |-> Some(request),
                 response |-> Some(fetch(request))]
  /\ UNCHANGED <<runVars, hl, fn, ps, rt>>

SpecAuth == InitHighlight /\ [][CallFetch]_vars

(***************************************************************************)
(* Properties                                                              *)
(***************************************************************************)
declaredHighlights(m) == IF IsSome(m.highlights) THEN Len(Get(m.highlights)) ELSE 0

\* C1: per-Directive isolation.  Once authentication has succeeded, every
\* Directive already passed by the loop has exactly one Outcome, at its own
\* position in parse order (the Outcome carries that Directive's description
\* and line number), whether it failed or not; and when the process has ended
\* every parsed Directive has its Outcome.
C1_Isolation ==
  logins > 0 =>
    /\ Len(results) = idx - 1
    /\ Len(results) <= Len(allMarkers)
    /\ \A i \in 1..Len(results) :
         /\ results[i].lineNumber = allMarkers[i].lineNumber
         /\ results[i].description = allMarkers[i].description
         /\ results[i].sourceFile = allMarkers[i].sourceFile
    /\ (pc = "exited" => Len(results) = Len(allMarkers))

\* C1 happens: a sequence Directive whose encoder failed is followed by a
\* single-image Directive that succeeded, each with its own Outcome
C1_Witness ==
  /\ pc = "exited" /\ logins > 0
  /\ Len(results) = 2
  /\ allMarkers[1].type = "gif" /\ ~results[1].success
  /\ \E d \in 1..Len(tempDirs) : Len(tempDirs[d]) = Len(Get(allMarkers[1].steps))
  /\ allMarkers[2].type = "screenshot" /\ results[2].success

\* C2: strict-mode exit contract.  A run whose authentication succeeded ends
\* with a non-zero status exactly when strict mode is on (--strict or CI) and
\* some successful Directive declared a highlight selector and matched no
\* element.
C2_StrictExit ==
  (pc = "exited" /\ logins > 0) =>
    ( (Get(exitCode) # 0)
      <=> ( /\ (strictFlag \/ ciEnv)
            /\ \E i \in 1..Len(results) :
                 /\ results[i].success
                 /\ declaredHighlights(allMarkers[i]) >= 1
                 /\ results[i].actualHighlights = 0 ) )

\* C2 happens: a strict run ends non-zero although a Directive that declared
\* highlights failed as well
C2_Witness ==
  /\ pc = "exited" /\ logins > 0
  /\ Get(exitCode) = 1
  /\ \E i \in 1..Len(results) :
       ~results[i].success /\ declaredHighlights(allMarkers[i]) >= 1

\* the image-reference lines of a document that carry a description
imageRefsOf(lines, description) ==
  {p \in 1..Len(lines) : lines[p].kind = "img" /\ lines[p].alt = description}

\* the marker lines of a document whose Directive has a description
markersOf(lines, description) ==
  {p \in 1..Len(lines) :
     /\ lines[p].kind \in {"shot", "gif"}
     /\ \E m \in {parseMarkdownFile(<<lines[p]>>, SourceFile)[1]} :
          m.description = Some(description)}

descriptionsIn(lines) ==
  {lines[p].alt : p \in {q \in 1..Len(lines) : lines[q].kind = "img" /\ IsSome(lines[q].ref)}}

\* C3: the Content Patcher is idempotent over whole runs.  When two runs in a
\* row both had every capture succeed, the document after the second is the
\* document after the first; and no Directive ever has more image-reference
\* lines than there are markers with its description.
C3_Idempotent ==
  /\ \A k \in 1..(Len(runHist) - 1) :
       (runHist[k].ok /\ runHist[k + 1].ok) => runHist[k + 1].doc = runHist[k].doc
  /\ \A d \in descriptionsIn(doc) :
       Cardinality(imageRefsOf(doc, d)) <= Cardinality(markersOf(doc, d))

PaddedLeft(t) == t.x - PROXIMITY_PADDING
PaddedRight(t) == t.x + t.width + PROXIMITY_PADDING
PaddedTop(t) == t.y - PROXIMITY_PADDING
PaddedBottom(t) == t.y + t.height + PROXIMITY_PADDING

\* the padded boxes of two targets share a point
PaddedOverlap(a, b) ==
  /\ Max(PaddedLeft(a), PaddedLeft(b)) <= Min(PaddedRight(a), PaddedRight(b))
  /\ Max(PaddedTop(a), PaddedTop(b)) <= Min(PaddedBottom(a), PaddedBottom(b))

\* C4: no two entries of a Selection have padded bounding boxes that overlap,
\* for every candidate list, every cap and both values of forceMinimum.
C4_NoOverlap ==
  hl.op \in {"filter", "apply"} =>
    \A i \in 1..Len(hl.selected), j \in 1..Len(hl.selected) :
       i # j => ~PaddedOverlap(hl.selected[i], hl.selected[j])

\* C4 happens: two entries are selected and a candidate in proximity of one of
\* them is left out although the cap is not reached
C4_Witness ==
  /\ hl.op = "filter"
  /\ Len(hl.selected) = 2 /\ hl.maxArrows = 3
  /\ \E i \in 1..Len(hl.targets) :
       /\ \A j \in 1..Len(hl.selected) : hl.selected[j] # hl.targets[i]
       /\ \E j \in 1..Len(hl.selected) : PaddedOverlap(hl.selected[j], hl.targets[i])

\* the number a string of digits denotes
RECURSIVE DecimalOf(_)
DecimalOf(t) ==
  IF t = <<>> THEN 0
  ELSE 10 * DecimalOf(SubSeq(t, 1, Len(t) - 1)) + DigitVal[t[Len(t)]]

IsNumeral(t) == t # <<>> /\ \A i \in 1..Len(t) : t[i] \in Digits

\* the text after "maxarrows:" is zero, negative or not a number
GivesNoOverride(t) ==
  LET v == trim(t)
  IN \/ v = <<>>
     \/ Head(v) = "-"
     \/ (Head(v) \notin Digits /\ Head(v) # "+")
     \/ (IsNumeral(v) /\ DecimalOf(v) = 0)

\* C5: the Selection of a single-image Directive holds at most the effective
\* cap of arrows: the Directive's maxarrows override, else the default 3.  An
\* override is a positive integer, the one the marker's text denotes; a text
\* that is 0, negative or not a number gives no override.
C5_WithinCap ==
  hl.op = "apply" =>
    LET m == Get(hl.marker)
        cap == IF IsSome(m.maxArrows) THEN Get(m.maxArrows) ELSE 3
    IN /\ Len(hl.selected) <= cap
       /\ (IsSome(m.maxArrows) => Get(m.maxArrows) > 0)
       /\ (~IsSome(hl.maxText) => ~IsSome(m.maxArrows))
       /\ (IsSome(hl.maxText) /\ GivesNoOverride(Get(hl.maxText)) => ~IsSome(m.maxArrows))
       /\ (IsSome(hl.maxText) /\ IsNumeral(trim(Get(hl.maxText)))
             /\ DecimalOf(trim(Get(hl.maxText))) > 0
           => m.maxArrows = Some(DecimalOf(trim(Get(hl.maxText)))))

\* C5 happens: an override of 2 cuts a Selection that the default would have
\* let hold three
C5_Witness ==
  /\ hl.op = "apply"
  /\ Get(hl.marker).maxArrows = Some(2)
  /\ Len(hl.selected) = 2
  /\ Len(filterArrowTargets(hl.targets, DEFAULT_MAX_ARROWS, TRUE).selected) = 3

\* a goes before b in the order: priority descending, then y, then x
RanksBefore(a, b) ==
  \/ a.priority > b.priority
  \/ (a.priority = b.priority /\ a.y < b.y)
  \/ (a.priority = b.priority /\ a.y = b.y /\ a.x < b.x)

\* the highest-priority candidate of a list, the earliest of equals
TopOf(targets) ==
  targets[CHOOSE i \in 1..Len(targets) :
            \A j \in 1..Len(targets) :
               /\ ~RanksBefore(targets[j], targets[i])
               /\ (j < i => RanksBefore(targets[i], targets[j]))]

\* C6: force-minimum.  Whenever a capture has an eligible Candidate its
\* Selection is not empty; so is the Selection of filterArrowTargets called
\* with forceMinimum on a non-empty list, whatever the cap, and with a cap of 0
\* it is exactly the first candidate in sort order.
C6_ForceMinimum ==
  /\ (hl.op = "apply" /\ Len(hl.targets) > 0 => Len(hl.selected) > 0)
  /\ (hl.op = "filter" /\ hl.forceMinimum /\ Len(hl.targets) > 0
        => Len(hl.selected) > 0)
  /\ (hl.op = "filter" /\ hl.forceMinimum /\ Len(hl.targets) > 0 /\ hl.maxArrows = 0
        => hl.selected = <<TopOf(hl.targets)>>)

\* C6 happens: a cap of 0 with forceMinimum, three candidates, the one selected
\* is not the first of the list handed in
C6_Witness ==
  /\ hl.op = "filter" /\ hl.forceMinimum /\ hl.maxArrows = 0
  /\ Len(hl.targets) = 3
  /\ Len(hl.selected) = 1
  /\ hl.selected[1] # hl.targets[1]

\* C7: authentication failure is fatal to the whole run.  After a failed
\* login the process has ended and no Directive was navigated to, captured,
\* encoded or patched, and no Outcome was recorded or reported.
C7_AuthFatal ==
  stdout.error = "login" =>
    /\ pc = "exited"
    /\ results = <<>>
    /\ \A k \in 1..Len(navLog) : navLog[k].what # "goto"
    /\ artifacts = {}
    /\ tempDirs = <<>>
    /\ \A p \in 1..Len(doc) : ~IsSome(doc[p].ref)
    /\ allMarkers = parseMarkdownFile(doc, SourceFile)
    /\ stdout.summary = None
    /\ ~stdout.json

\* C7 happens: the login fails in a run that parsed two Directives
C7_Witness ==
  /\ stdout.error = "login"
  /\ pc = "exited"
  /\ Len(allMarkers) = 2
  /\ browser = "closed"

\* C8: when authentication fails or the browser cannot be launched, the
\* process ends with a non-zero exit status.
C8_FatalExitNonZero ==
  (pc = "exited" /\ stdout.error \in {"login", "launch"}) => Get(exitCode) # 0

\* the Directives that were navigated to and have no Outcome yet
inProgress ==
  {navLog[k].marker : k \in {j \in 1..Len(navLog) : navLog[j].what = "goto"}}
  \ (1..Len(results))

\* C9: a run is strictly sequential.  The login is the first use of the page
\* and the only login; a capture navigates only after the login has completed
\* and when every earlier Directive, and no later one, has its Outcome; the
\* Directives are navigated in parse order; at most one is in progress.
C9_Sequential ==
  /\ logins <= 1
  /\ \A k \in 1..Len(navLog) :
       /\ (navLog[k].what = "login") <=> (k = 1)
       /\ navLog[k].what = "goto" =>
            /\ logins = 1
            /\ navLog[k].recorded = navLog[k].marker - 1
            /\ allMarkers[navLog[k].marker].lineNumber
                 >= allMarkers[Max(1, navLog[k - 1].marker)].lineNumber
       /\ \A l \in k..Len(navLog) : navLog[k].marker <= navLog[l].marker
  /\ Cardinality(inProgress) <= 1
  /\ Len(results) <= idx - 1

\* C9 happens: two Directives were navigated to, the first one failed after
\* its navigation, and the run has ended
C9_Witness ==
  /\ pc = "exited"
  /\ \E k \in 1..Len(navLog), l \in 1..Len(navLog) :
       navLog[k].marker = 1 /\ navLog[l].marker = 2
  /\ Len(results) = 2 /\ ~results[1].success /\ results[2].success

\* the parent directory of a source file
GroupingOf(sourceFile) == SubSeq(sourceFile, 1, Len(sourceFile) - 1)

SameNameInputs(m1, m2) ==
  /\ m1.description = m2.description
  /\ GroupingOf(m1.sourceFile) = GroupingOf(m2.sourceFile)
  /\ m1.type = m2.type

\* C10: the artifact path is a function of (description, grouping, kind)
\* only: two Directives equal on the three resolve to the same path, whatever
\* their line numbers, routes, highlight selectors, maxarrows overrides and
\* file names, and whatever is on disk when the path is computed.
C10_PathFunction ==
  fn.op = "second" =>
    (SameNameInputs(Get(fn.m1), Get(fn.m2)) => fn.p1 = fn.p2)

\* C10 happens: two Directives equal on the three and different in everything
\* else, the second path computed with the first artifact on disk
C10_Witness ==
  /\ fn.op = "second"
  /\ SameNameInputs(Get(fn.m1), Get(fn.m2))
  /\ Get(fn.m1).lineNumber # Get(fn.m2).lineNumber
  /\ Get(fn.m1).path # Get(fn.m2).path
  /\ Get(fn.m1).highlights # Get(fn.m2).highlights
  /\ Get(fn.m1).maxArrows # Get(fn.m2).maxArrows
  /\ Get(fn.m1).sourceFile # Get(fn.m2).sourceFile
  /\ fn.before # fn.after
  /\ fn.p1 = fn.p2

\* no two of the targets are in proximity
NoProximity(targets) ==
  \A i \in 1..Len(targets), j \in 1..Len(targets) :
     i # j => ~PaddedOverlap(targets[i], targets[j])

\* how many of the targets go before t in the order
RankOf(targets, t) ==
  Cardinality({i \in 1..Len(targets) : RanksBefore(targets[i], t)})

\* C11: when no two candidates are in proximity and there are more candidates
\* than the cap c, the Selection is the first c candidates in the order
\* (priority descending, then y ascending, then x ascending) and skipped holds
\* the selectors of the others, in that order.
C11_TopWithinCap ==
  (/\ hl.op \in {"filter", "apply"}
   /\ NoProximity(hl.targets)
   /\ Len(hl.targets) > hl.maxArrows
   /\ (hl.maxArrows >= 1 \/ ~hl.forceMinimum))
  => /\ Len(hl.selected) = hl.maxArrows
     /\ Len(hl.skipped) = Len(hl.targets) - hl.maxArrows
     /\ \A k \in 1..Len(hl.selected) :
          /\ \E i \in 1..Len(hl.targets) : hl.targets[i] = hl.selected[k]
          /\ RankOf(hl.targets, hl.selected[k]) = k - 1
     /\ \A k \in 1..Len(hl.skipped) :
          \E i \in 1..Len(hl.targets) :
             /\ hl.targets[i].selector = hl.skipped[k]
             /\ RankOf(hl.targets, hl.targets[i]) = hl.maxArrows + k - 1

\* C11 happens: priorities 190, 20, 10, 10, 10 handed in out of order with a
\* cap of 3: the 190, the 20 and the first 10 by position, two skipped
C11_Witness ==
  /\ hl.op = "filter" /\ hl.maxArrows = 3
  /\ Len(hl.targets) = 5 /\ hl.targets[1].priority = 10
  /\ NoProximity(hl.targets)
  /\ Len(hl.selected) = 3 /\ Len(hl.skipped) = 2
  /\ hl.selected[1].priority = 190 /\ hl.selected[2].priority = 20
  /\ hl.selected[3].priority = 10 /\ hl.selected[3].y = 400 /\ hl.selected[3].x = 100

EncoderFails ==
  /\ pc = "frames" /\ step = Len(Get(curMarker.steps))
  /\ pc' = "loop"
  /\ Len(results') = Len(results) + 1
  /\ ~results'[Len(results')].success

\* C13: when the frame encoder fails for a sequence Directive, the Outcome of
\* that Directive is a failure with an empty artifact path and, whatever was
\* in the output directory before, no animated artifact is at the Directive's
\* artifact path when the Directive has finished.
C13_NoArtifactAfterEncoderFailure ==
  [][EncoderFails =>
       /\ results'[Len(results')].output = None
       /\ results'[Len(results')].lineNumber = curMarker.lineNumber
       /\ outputPathOf(curMarker) \notin artifacts']_vars

\* the routes of the first k steps of a sequence Directive, in step order
StepRoutes(m, k) ==
  [i \in 1..k |->
     LET s == Get(m.steps)[i]
     IN IF Len(s) > 0 /\ Head(s) = "/" THEN s ELSE inferPath(s)]

\* C14: for a sequence Directive with n steps, frame i is the capture of step
\* i, in step order; the encoder is invoked only when exactly n frames exist;
\* a successful encode writes the artifact and removes the frames and their
\* directory.
C14_FramesThenEncode ==
  [][/\ (pc' = "frames" =>
           /\ step' <= Len(Get(curMarker'.steps))
           /\ tempDirs'[Len(tempDirs')] = StepRoutes(curMarker', step'))
     /\ (pc = "frames" /\ pc' = "frames" =>
           /\ step' = step + 1
           /\ Len(tempDirs') = Len(tempDirs))
     /\ (pc = "frames" /\ pc' = "patch" =>
           /\ tempDirs[Len(tempDirs)]
                = StepRoutes(curMarker, Len(Get(curMarker.steps)))
           /\ Len(tempDirs') = Len(tempDirs) - 1
           /\ \A d \in 1..Len(tempDirs') : tempDirs'[d] = tempDirs[d]
           /\ outputPathOf(curMarker) \in artifacts')]_vars

\* C14 happens: a sequence Directive of two steps, one a route and one a
\* description, has been encoded: its artifact is there, no frame directory is
\* left, and the page went to both steps in order
C14_Witness ==
  /\ pc = "patch"
  /\ curMarker.type = "gif"
  /\ Len(Get(curMarker.steps)) = 2
  /\ Head(Get(curMarker.steps)[1]) = "/" /\ Head(Get(curMarker.steps)[2]) # "/"
  /\ outputPathOf(curMarker) \in artifacts
  /\ tempDirs = <<>>
  /\ Len(navLog) = 3
  /\ pageUrl = StepRoutes(curMarker, 2)[2]

\* the step of the run that records a success for the current Directive
RecordsSuccess ==
  /\ idx <= Len(allMarkers)
  /\ results' = Append(results, results'[Len(results')])
  /\ results'[Len(results')].success
  /\ results'[Len(results')].lineNumber = curMarker.lineNumber
  /\ IsSome(results'[Len(results')].output)
  /\ Get(results'[Len(results')].output) \in artifacts

unmetHighlights ==
  {i \in 1..Len(results) :
     /\ results[i].success
     /\ declaredHighlights(allMarkers[i]) >= 1
     /\ results[i].actualHighlights = 0}

\* C16: a strict-mode failure ends the run only after every Directive has
\* been processed and every unmet-highlight case reported: when the process
\* has ended with status 1 every parsed Directive has its Outcome, the summary
\* counts them all, the warning lists every unmet case, and every Directive
\* that succeeded has its artifact on disk and an image reference in the
\* document.
C16_StrictExitAfterAll ==
  (pc = "exited" /\ Get(exitCode) = 1) =>
    /\ Len(results) = Len(allMarkers)
    /\ \A i \in 1..Len(results) : results[i].lineNumber = allMarkers[i].lineNumber
    /\ stdout.summary
         = Some([total |-> Len(allMarkers),
                 success |-> Cardinality({i \in 1..Len(results) : results[i].success})])
    /\ stdout.warned = Cardinality(unmetHighlights)
    /\ stdout.warned >= 1
    /\ stdout.json = ciEnv
    /\ \A i \in 1..Len(results) :
         results[i].success =>
           /\ Get(results[i].output) \in artifacts
           /\ \E p \in 1..Len(doc) : doc[p].kind = "img"

\* C16 happens: in a strict run the first Directive has an unmet highlight and
\* the second, a sequence, is captured and reported before the run ends with
\* status 1
C16_Witness ==
  /\ pc = "exited" /\ Get(exitCode) = 1
  /\ Len(results) = 2
  /\ unmetHighlights = {1}
  /\ allMarkers[2].type = "gif" /\ results[2].success
  /\ Get(results[2].output) \in artifacts
  /\ Get(results[2].output) # Get(results[1].output)
  /\ stdout.summary = Some([total |-> 2, success |-> 2])

\* the selectors a highlight segment names
SelectorsOf(segment) ==
  IF segment = SegHighlight
  THEN <<<<"i","n","p","u","t","[","t","y","p","e","=","\"","s","u","b","m","i","t","\"","]">>, <<".","b","t","n","-","p","r","i","m","a","r","y">>>>
  ELSE <<<<".","a">>, <<".","b">>>>

IsHighlightSegment(segment) == segment \in {SegHighlight, SegHighlightGaps}
IsModifierSegment(segment) ==
  segment \in {SegHighlight, SegHighlightGaps, SegMaxArrows, SegArrow}
IsUnknownSegment(segment) == segment \in {SegUnknown, SegUnknownCase}
StartsWithSlash(segment) == Len(segment) > 0 /\ segment[1] = "/"

\* C17: a single-image marker written as [a segment starting with '/', a
\* description, highlight:s1,...,sk] parses to exactly one Directive whose
\* path is the first segment, whose description is the second, whose
\* selectors are the k non-empty ones in order, and which has no maxarrows
\* override.
C17_ParsePathDescriptionHighlight ==
  (/\ ps.op = "parse" /\ ps.kind = "shot"
   /\ Len(ps.segments) = 3
   /\ StartsWithSlash(ps.segments[1])
   /\ ~IsModifierSegment(ps.segments[2])
   /\ IsHighlightSegment(ps.segments[3]))
  => /\ Len(ps.markers) = 1
     /\ ps.markers[1].type = "screenshot"
     /\ ps.markers[1].path = Some(ps.segments[1])
     /\ ps.markers[1].description = Some(ps.segments[2])
     /\ ps.markers[1].highlights = Some(SelectorsOf(ps.segments[3]))
     /\ ps.markers[1].maxArrows = None
     /\ ps.markers[1].steps = None

\* C17 happens: /quotes/new | New quote form |
\* highlight:input[type="submit"],.btn-primary has been parsed: two selectors
C17_Witness ==
  /\ ps.op = "parse" /\ ps.kind = "shot"
  /\ ps.segments = <<SegPath, SegDescription, SegHighlight>>
  /\ Len(ps.markers) = 1
  /\ Len(Get(ps.markers[1].highlights)) = 2
  /\ ps.markers[1].description = Some(SegDescription)

\* the lines of a document that hold a marker, in order
RECURSIVE MarkerLinesOf(_, _)
MarkerLinesOf(lines, from) ==
  IF from > Len(lines) THEN <<>>
  ELSE (IF lines[from].kind \in {"shot", "gif"} THEN <<from>> ELSE <<>>)
       \o MarkerLinesOf(lines, from + 1)

\* the segments left when the modifier segments are taken out
ContentOf(segments) == SelectSeq(segments, LAMBDA g : ~IsModifierSegment(g))

\* the path and the description a list of content segments stands for
PathAndDescription(content) ==
  IF Len(content) >= 2 /\ StartsWithSlash(content[1])
  THEN [path |-> Some(content[1]), description |-> Some(content[2])]
  ELSE [path |-> None,
        description |-> IF content = <<>> THEN None ELSE Some(content[1])]

\* every line with a marker yields one Directive with that line's number, and
\* a first content segment without a leading '/' is the description of a
\* Directive without a path
ParseIsTotal ==
  ps.op = "parse" =>
    /\ Len(ps.markers) = Len(MarkerLinesOf(ps.lines, 1))
    /\ \A k \in 1..Len(ps.markers) :
         /\ ps.markers[k].lineNumber = MarkerLinesOf(ps.lines, 1)[k]
         /\ ps.markers[k].sourceFile = SourceFile
         /\ ps.markers[k].type
              = (IF ps.lines[ps.markers[k].lineNumber].kind = "gif"
                 THEN "gif" ELSE "screenshot")
    /\ (ps.kind = "shot" /\ ContentOf(ps.segments) # <<>>
          /\ ~StartsWithSlash(ContentOf(ps.segments)[1])
        => /\ ps.markers[1].path = None
           /\ ps.markers[1].description = Some(ContentOf(ps.segments)[1]))

\* the path and the description are what the marker gives without its
\* segments of unrecognized keys
UnknownSegmentsDropped ==
  LET known == SelectSeq(ContentOf(ps.segments), LAMBDA g : ~IsUnknownSegment(g))
  IN /\ ps.markers[1].path = PathAndDescription(known).path
     /\ ps.markers[1].description = PathAndDescription(known).description

\* the segments of unrecognized keys all come after the description
UnknownSegmentsFollow ==
  LET content == ContentOf(ps.segments)
      described == IF Len(content) >= 2 /\ StartsWithSlash(content[1]) THEN 2 ELSE 1
  IN \A i \in 1..Len(content) : IsUnknownSegment(content[i]) => i > described

\* C18 (as the code has it): parsing never fails; every line with a marker
\* yields a Directive tagged with the line's 1-based number; a first content
\* segment without a leading '/' is the description of a path-less Directive;
\* segments of unrecognized keys that follow the description change neither
\* the path nor the description.
C18_ParseTotal ==
  /\ ParseIsTotal
  /\ (ps.op = "parse" /\ ps.kind = "shot" /\ UnknownSegmentsFollow
        => UnknownSegmentsDropped)

\* C18 (as the spec has it): the same, with segments of unrecognized keys
\* changing neither the path nor the description wherever they stand.
C18_UnknownDroppedAnywhere ==
  /\ ParseIsTotal
  /\ (ps.op = "parse" /\ ps.kind = "shot" => UnknownSegmentsDropped)

\* C18 happens: a description, a segment of an unrecognized key and a
\* highlight segment on the third line of a document: a path-less Directive
\* tagged 3, described by the first segment
C18_Witness ==
  /\ ps.op = "parse" /\ ps.kind = "shot"
  /\ ps.segments = <<SegDescription, SegUnknown, SegHighlight>>
  /\ Len(ps.lines) = 3
  /\ Len(ps.markers) = 1
  /\ ps.markers[1].lineNumber = 3
  /\ ps.markers[1].path = None
  /\ ps.markers[1].description = Some(SegDescription)
  /\ IsSome(ps.markers[1].highlights)

\* the word occurs in the text
OccursIn(word, text) ==
  \E i \in 1..(Len(text) - Len(word) + 1) : SubSeq(text, i, i + Len(word) - 1) = word

\* the keyword table of the spec: keyword, route
KeywordRoutes ==
  << <<<<"q","u","o","t","e">>, <<"/","q","u","o","t","e","s">>>>, <<<<"q","u","o","t","e","s">>, <<"/","q","u","o","t","e","s">>>>, <<<<"c","a","l","e","n","d","a","r">>, <<"/","a","p","p","o","i","n","t","m","e","n","t","s">>>>, <<<<"s","c","h","e","d","u","l","e">>, <<"/","a","p","p","o","i","n","t","m","e","n","t","s">>>>, <<<<"a","p","p","o","i","n","t","m","e","n","t">>, <<"/","a","p","p","o","i","n","t","m","e","n","t","s">>>>, <<<<"c","u","s","t","o","m","e","r">>, <<"/","c","u","s","t","o","m","e","r","s">>>>,
     <<<<"i","n","v","e","n","t","o","r","y">>, <<"/","i","n","v","e","n","t","o","r","y">>>>, <<<<"o","r","d","e","r">>, <<"/","o","r","d","e","r","s">>>>, <<<<"w","o","r","k"," ","o","r","d","e","r">>, <<"/","w","o","r","k","_","o","r","d","e","r","s">>>>, <<<<"i","n","v","o","i","c","e">>, <<"/","i","n","v","o","i","c","e","s">>>>, <<<<"d","a","s","h","b","o","a","r","d">>, <<"/","d","a","s","h","b","o","a","r","d">>>>, <<<<"s","e","t","t","i","n","g","s">>, <<"/","s","e","t","t","i","n","g","s">>>> >>

\* the route is that of the first keyword of the table that occurs in the
\* lower-cased description, /dashboard when none occurs
IsInferredRoute(route, description) ==
  LET lower == toLowerCase(description)
  IN \/ \E k \in 1..Len(KeywordRoutes) :
          /\ OccursIn(KeywordRoutes[k][1], lower)
          /\ \A j \in 1..(k - 1) : ~OccursIn(KeywordRoutes[j][1], lower)
          /\ route = KeywordRoutes[k][2]
     \/ /\ \A k \in 1..Len(KeywordRoutes) : ~OccursIn(KeywordRoutes[k][1], lower)
        /\ route = <<"/","d","a","s","h","b","o","a","r","d">>

\* C19: the route a single-image Directive is navigated to is its explicit
\* path whenever it has one, whatever its description; otherwise the route of
\* the first keyword, in table order, that occurs in the lower-cased
\* description, and /dashboard when no keyword occurs.
C19_RouteResolution ==
  rt.op = "resolve" =>
    LET m == Get(rt.marker)
    IN /\ pageUrl = rt.route
       /\ (IsSome(m.path) => pageUrl = Get(m.path))
       /\ (~IsSome(m.path) => IsInferredRoute(pageUrl, Get(m.description)))

\* C19 happens: "Invoice for a quote" without a path goes to /quotes, the
\* keyword quote standing before invoice in the table
C19_Witness ==
  /\ rt.op = "resolve"
  /\ ~IsSome(Get(rt.marker).path)
  /\ Get(rt.marker).description = Some(<<"I","n","v","o","i","c","e"," ","f","o","r"," ","a"," ","q","u","o","t","e">>)
  /\ pageUrl = <<"/","q","u","o","t","e","s">>

\* the area of the box is strictly below a tenth of the viewport area
BelowTenth(box) == box.width * box.height * 10 < ViewportWidth * ViewportHeight

\* the elements of the page a selector of the marker matches, per selector
MatchesOf(page, selectors) ==
  {p \in (1..Len(selectors)) \X page : selectors[p[1]] \in p[2].sels}

\* the matched elements whose box covers a tenth of the viewport or more
LargeMatches(page, selectors) ==
  {p[2] : p \in {q \in MatchesOf(page, selectors) :
                   IsSome(q[2].box) /\ ~BelowTenth(Get(q[2].box))}}

\* C20: every entry of the Selection, the one forced as a minimum included,
\* has a box area strictly below 10% of the viewport area; a matched element
\* of area 10% or more is highlighted and counted, but is never a Candidate
\* and never gets an arrow.
C20_EligibilityThreshold ==
  hl.op = "apply" =>
    LET selectors == Get(Get(hl.marker).highlights)
        arrows == hl.targets \o hl.selected
    IN /\ \A i \in 1..Len(hl.selected) : BelowTenth(hl.selected[i])
       /\ hl.count = Cardinality(MatchesOf(hl.page, selectors))
       /\ \A e \in LargeMatches(hl.page, selectors) :
            \A i \in 1..Len(arrows) :
              [x |-> arrows[i].x, y |-> arrows[i].y, width |-> arrows[i].width,
               height |-> arrows[i].height] # Get(e.box)

\* C20 happens: with a cap of 1 on a page where the selectors match an
\* element of exactly a tenth of the viewport, a larger one and two small
\* ones, all four are counted, only the small ones are Candidates and the
\* one arrow goes to a small one
C20_Witness ==
  /\ hl.op = "apply"
  /\ hl.maxArrows = 1
  /\ hl.forceMinimum
  /\ LET large == LargeMatches(hl.page, Get(Get(hl.marker).highlights))
     IN /\ \E e \in large : Get(e.box).width * Get(e.box).height * 10
                              = ViewportWidth * ViewportHeight
        /\ \E e \in large : Get(e.box).width * Get(e.box).height * 10
                              > ViewportWidth * ViewportHeight
        /\ hl.count = Cardinality(large) + 2
  /\ Len(hl.targets) = 2
  /\ Len(hl.selected) = 1
  /\ BelowTenth(hl.selected[1])

\* the text matches /create|save|submit|add|new|confirm|update|delete|remove/i
MatchesActionVerb(text) ==
  \E w \in {<<"c","r","e","a","t","e">>, <<"s","a","v","e">>, <<"s","u","b","m","i","t">>, <<"a","d","d">>, <<"n","e","w">>, <<"c","o","n","f","i","r","m">>, <<"u","p","d","a","t","e">>, <<"d","e","l","e","t","e">>, <<"r","e","m","o","v","e">>} : OccursIn(w, toLowerCase(text))

\* the sum of the weights, the +90 given as the argument says
WeightSum(submitApplies) ==
    (IF OccursIn(<<"b","t","n","-","p","r","i","m","a","r","y">>, hl.selector) THEN 100 ELSE 0)
  + (IF submitApplies THEN 90 ELSE 0)
  + (IF hl.tagName \in {"A", "BUTTON"} THEN 20 ELSE 0)
  + (IF MatchesActionVerb(hl.text) THEN 50 ELSE 0)
  + (IF hl.tagName \in {"INPUT", "SELECT", "TEXTAREA"} THEN 10 ELSE 0)

\* C21: the priority of an element is the sum of the weights of exactly the
\* heuristics that apply to it: +100 for a primary-action selector, +90 when
\* its type is submit, whatever its tag, +20 for a link or button tag, +50
\* when its text matches the action-verb pattern, +10 for a generic form
\* field; no other term contributes.
C21_ScoreIsWeightSum ==
  hl.op = "score" => hl.score = WeightSum(hl.type = "submit")

\* C21 as stated: the +90 goes to an input of submit type only.
C21_SubmitInputOnly ==
  hl.op = "score" => hl.score = WeightSum(hl.tagName = "INPUT" /\ hl.type = "submit")

\* C21 happens: a submit button "Save" found by .btn-primary scores
\* 100 + 90 + 20 + 50
C21_Witness ==
  /\ hl.op = "score"
  /\ hl.selector = SelPrimary /\ hl.tagName = "BUTTON" /\ hl.type = "submit"
  /\ hl.text = <<"S","a","v","e">>
  /\ hl.score = 260

\* the arrow starts beyond the given corner of the box and ends just outside
\* it: the terminal point is the corner moved out by the padding, the start
\* point lies further out on the same diagonal (dx, dy are -1 or 1)
ArrowFrom(arrow, box, dx, dy) ==
  /\ arrow.targetX = (IF dx < 0 THEN box.x ELSE box.x + box.width) + dx * PAD
  /\ arrow.targetY = (IF dy < 0 THEN box.y ELSE box.y + box.height) + dy * PAD
  /\ \E k \in 1..ViewportWidth :
       /\ arrow.startX = arrow.targetX + dx * k
       /\ arrow.startY = arrow.targetY + dy * k

\* C22: for every Selection entry the callout direction follows the screen
\* quadrant that holds the centre of the element: bottom-right quadrant,
\* arrow from the top-left of the element; top-right, from the bottom-left;
\* bottom-left, from the top-right; top-left, from the bottom-right; the
\* terminal point lies just outside the padded corner and the start point
\* further out on the same diagonal.
C22_DirectionByQuadrant ==
  hl.op = "arrows" =>
    \A i \in 1..Len(hl.targets) :
      LET box == hl.targets[i]
          arrow == hl.arrows[i]
          right == 2 * box.x + box.width > ViewportWidth
          left == 2 * box.x + box.width < ViewportWidth
          bottom == 2 * box.y + box.height > ViewportHeight
          top == 2 * box.y + box.height < ViewportHeight
      IN /\ (right /\ bottom => ArrowFrom(arrow, box, -1, -1))
         /\ (right /\ top => ArrowFrom(arrow, box, -1, 1))
         /\ (left /\ bottom => ArrowFrom(arrow, box, 1, -1))
         /\ (left /\ top => ArrowFrom(arrow, box, 1, 1))

\* the first line after line p that is not blank, 0 when there is none
NextNonBlank(lines, p) ==
  LET after == {q \in (p + 1)..Len(lines) : lines[q].kind # "blank"}
  IN IF after = {} THEN 0 ELSE CHOOSE q \in after : \A o \in after : q <= o

\* C23: after a run in which every capture succeeded, every single-image
\* marker line of the document has an image-reference line as the next
\* non-blank line below it, also when two markers are patched in the same
\* run; no image reference stands above the marker it belongs to.
C23_ImageBelowEachMarker ==
  (pc = "exited" /\ allMarkers # <<>> /\ allSucceeded(results)) =>
    \A p \in 1..Len(doc) :
      doc[p].kind = "shot" =>
        /\ NextNonBlank(doc, p) # 0
        /\ doc[NextNonBlank(doc, p)].kind = "img"

\* the distance between two boxes along an axis, negative when they overlap
GapX(a, b) == Max(a.x - (b.x + b.width), b.x - (a.x + a.width))
GapY(a, b) == Max(a.y - (b.y + b.height), b.y - (a.y + a.height))

\* the boxes are within 50px of one another
Within50(a, b) == GapX(a, b) <= 50 /\ GapY(a, b) <= 50

\* C24: a candidate is skipped for proximity only when its box is within 50px
\* of an accepted box.  When the Selection ends below the cap, every skip was
\* one for proximity, so every candidate left out is within 50px of a
\* selected one; a candidate more than 50px away, horizontally or vertically,
\* from every selected box is not left out.
C24_SkipWithin50 ==
  (hl.op = "filter" /\ Len(hl.selected) < hl.maxArrows) =>
    \A i \in 1..Len(hl.targets) :
      (\A j \in 1..Len(hl.selected) : hl.selected[j] # hl.targets[i])
      => \E j \in 1..Len(hl.selected) : Within50(hl.targets[i], hl.selected[j])

\* the value is well formed, carries the signature of the shared secret and a
\* payload that can be read
SignatureMatches(v) ==
  v.form = "signed" /\ v.secret = "DOCS_SIGNING_SECRET" /\ v.parses

\* the request carries a URL token that is valid
HasValidToken(request) ==
  /\ IsSome(request.token)
  /\ SignatureMatches(Get(request.token))
  /\ Get(request.token)._expires_at # "past"

\* the request carries a docs_session cookie that validates
HasValidSession(request) ==
  /\ IsSome(request.cookie)
  /\ SignatureMatches(Get(request.cookie))
  /\ Get(request.cookie).expires_at # "past"

\* C25: content of a non-public path is fetched from the origin only for a
\* request whose docs_session cookie validates; a request with a valid URL
\* token is answered with a 302 to the same URL without the token and a fresh
\* session cookie, on a public path too; a request with an invalid token is
\* answered as the same request without token; every other request to a
\* non-public path is redirected to the Rails login with return_to = /help +
\* path.
C25_AuthGate ==
  aw.op = "fetch" =>
    LET request == Get(aw.request)
        response == Get(aw.response)
    IN /\ (response.status = "origin" /\ ~isPublicPath(request.path))
            => /\ HasValidSession(request)
               /\ response.origin = Some(request.path)
       /\ HasValidToken(request)
            => /\ response.status = "302"
               /\ response.origin = None
               /\ response.location = Some([site |-> "docs", path |-> request.path,
                                            token |-> FALSE, return_to |-> None])
               /\ IsSome(response.setCookie)
               /\ SignatureMatches(Get(response.setCookie))
               /\ Get(response.setCookie).expires_at = "future"
       /\ ~HasValidToken(request)
            => response = fetch([request EXCEPT !.token = None])
       /\ (~HasValidToken(request) /\ ~isPublicPath(request.path)
           /\ ~HasValidSession(request))
            => /\ response.status = "302"
               /\ response.origin = None
               /\ response.setCookie = None
               /\ response.location =
                    Some([site |-> "rails", path |-> <<"/","l","o","g","i","n">>, token |-> FALSE,
                          return_to |-> Some(<<"/","h","e","l","p">> \o request.path)])

\* C25 happens: a valid token on the public landing page, with no cookie, is
\* answered with the redirect and a session cookie
C25_Witness ==
  /\ aw.op = "fetch"
  /\ Get(aw.request).path = <<"/">>
  /\ HasValidToken(Get(aw.request))
  /\ Get(aw.request).cookie = None
  /\ Get(aw.response).status = "302"
  /\ IsSome(Get(aw.response).setCookie)

\* C26: once the browser has been launched, every end of the run, by a login
\* failure, after all Directives in non-strict mode, or with the strict
\* non-zero status, comes with the browser closed.
C26_BrowserClosedAtExit ==
  (pc = "exited" /\ browser # "none") => browser = "closed"

\* the entries of the Selection that do not come after t in the order: the
\* Selection as it was at the turn of t
SelectedBefore(t) ==
  {j \in 1..Len(hl.selected) : ~RanksBefore(t, hl.selected[j])}

\* C27: a candidate is left out of the Selection only if, at its turn in the
\* order, the Selection already held cap entries or a selected candidate was
\* in proximity to it; every candidate is either selected or skipped; so
\* when the Selection ends below the cap, every candidate left out is in
\* proximity to a selected one that came before it.
C27_GreedyMaximal ==
  hl.op \in {"filter", "apply"} =>
    /\ Len(hl.targets) > 0 /\ (hl.maxArrows >= 1 \/ hl.forceMinimum)
         => Len(hl.selected) + Len(hl.skipped) = Len(hl.targets)
    /\ \A i \in 1..Len(hl.targets) :
         (\A j \in 1..Len(hl.selected) : hl.selected[j] # hl.targets[i])
         => \/ Cardinality(SelectedBefore(hl.targets[i])) >= hl.maxArrows
            \/ \E j \in SelectedBefore(hl.targets[i]) :
                 PaddedOverlap(hl.selected[j], hl.targets[i])
    /\ Len(hl.selected) < hl.maxArrows
         => \A i \in 1..Len(hl.targets) :
              (\A j \in 1..Len(hl.selected) : hl.selected[j] # hl.targets[i])
              => \E j \in SelectedBefore(hl.targets[i]) :
                   PaddedOverlap(hl.selected[j], hl.targets[i])

\* C27 happens: under a cap of 2 the second candidate in the order is left out
\* for proximity to the first, and the third, of lower priority and apart
\* from both, takes the second place
C27_Witness ==
  /\ hl.op = "filter" /\ hl.maxArrows = 2
  /\ Len(hl.targets) = 3 /\ Len(hl.selected) = 2 /\ Len(hl.skipped) = 1
  /\ \E i \in 1..3 :
       /\ \A j \in 1..2 : hl.selected[j] # hl.targets[i]
       /\ PaddedOverlap(hl.selected[1], hl.targets[i])
       /\ RanksBefore(hl.selected[1], hl.targets[i])
       /\ RanksBefore(hl.targets[i], hl.selected[2])
       /\ ~PaddedOverlap(hl.targets[i], hl.selected[2])

\* C28: every Directive the parser produces has a description that is defined
\* and not empty, for every marker line, those made of modifier segments only
\* included.
C28_DescriptionDefined ==
  ps.op = "parse" =>
    \A i \in 1..Len(ps.markers) :
      /\ IsSome(ps.markers[i].description)
      /\ Get(ps.markers[i].description) # <<>>

\* C29: every route of the keyword table can be reached; in particular a
\* description that contains "work order", with no explicit path, resolves to
\* the route /work_orders.
C29_WorkOrderRoute ==
  (/\ rt.op = "resolve"
   /\ ~IsSome(Get(rt.marker).path)
   /\ OccursIn(<<"w","o","r","k"," ","o","r","d","e","r">>, toLowerCase(Get(Get(rt.marker).description))))
  => rt.route = <<"/","w","o","r","k","_","o","r","d","e","r","s">>

\* C30: after a sequence Directive has finished, with success or with a
\* failure of a step's navigation or of the encoder, its frame directory and
\* frames are gone: frame directories exist only while a sequence Directive
\* is being captured.
C30_NoFramesLeft ==
  pc # "frames" => tempDirs = <<>>

====
